---- MODULE Spec2Model ----
(***************************************************************************)
(* A model of the aggregation / analytics layer of the GitHub MCP server:  *)
(* the aggregators of src/src/contribution, src/src/issue_and_pr_management *)
(* and src/src/repo_management, the GitHub responses they read and the     *)
(* reports they return.                                                    *)
(*                                                                         *)
(* JSON values are tagged records (JNull, JStr, JNum, JBool, JList, JObj), *)
(* so that Python's None, a missing key, the empty string and a value of   *)
(* an unexpected shape stay distinct.  A Python call that may raise is an  *)
(* operator returning Ret(v) or Raise(exception name).  Instants are       *)
(* counted in ticks, TicksPerDay ticks to the calendar day.                *)
(***************************************************************************)
EXTENDS Integers, Sequences, FiniteSets, TLC

VARIABLES
    GITHUB_TOKEN,   \* config.GITHUB_TOKEN: TRUE iff a token is configured
    now,            \* the instant of the call, in ticks
    op,             \* the aggregator invoked, "none" before the call
    pc,             \* "idle", "fetching", "analysing" or "done"
    args,           \* the invocation's scalar arguments
    fetched,        \* the responses received so far, in request order
    requests,       \* the endpoints requested so far, in order
    result,         \* the mapping returned to the caller
    escaped,        \* TRUE iff an exception left the aggregator
    inp,            \* input of a function applied on its own
    out             \* its output

vars == <<GITHUB_TOKEN, now, op, pc, args, fetched, requests, result, escaped,
          inp, out>>

aggVars == <<GITHUB_TOKEN, op, pc, args, fetched, requests, result, escaped>>

-----------------------------------------------------------------------------
(* Bounds of the model *)

TicksPerDay == 2
MaxDays == 2
MaxItems == 2

-----------------------------------------------------------------------------
(* JSON values and Python results *)

JNull == [t |-> "null"]
JStr(s) == [t |-> "str", s |-> s]
JNum(n) == [t |-> "num", n |-> n]
JBool(b) == [t |-> "bool", b |-> b]
JList(l) == [t |-> "list", l |-> l]
JObj(o) == [t |-> "obj", o |-> o]
\* A string holding the ISO-8601 text of the instant `at`.
JDate(at) == [t |-> "str", s |-> "<iso-8601>", at |-> at]

Ret(v) == [ok |-> TRUE, v |-> v]
Raise(e) == [ok |-> FALSE, exc |-> e]

\* Python truthiness of a JSON value.
Truthy(v) ==
    CASE v.t = "null" -> FALSE
      [] v.t = "str" -> v.s # ""
      [] v.t = "num" -> v.n # 0
      [] v.t = "bool" -> v.b
      [] v.t = "list" -> v.l # <<>>
      [] v.t = "obj" -> DOMAIN v.o # {}

\* dict.get(key) and dict.get(key, default) on the mapping of a JObj.
Get(o, k) == IF k \in DOMAIN o THEN o[k] ELSE JNull
GetD(o, k, d) == IF k \in DOMAIN o THEN o[k] ELSE d

\* datetime.fromisoformat(x.replace('Z', '+00:00')): the instant of an ISO
\* string; None has no replace(), any other text does not parse.
fromisoformat(x) ==
    IF x.t # "str" THEN Raise("AttributeError")
    ELSE IF "at" \in DOMAIN x THEN Ret(x.at)
    ELSE Raise("ValueError")

\* timedelta.days of the difference of two instants (floor).
DaysBetween(later, earlier) == (later - earlier) \div TicksPerDay

SeqSum(s) ==
    LET sum[i \in 0..Len(s)] == IF i = 0 THEN 0 ELSE sum[i - 1] + s[i]
    IN sum[Len(s)]

\* [f(x) for x in s if P(x)]
Comprehend(s, P(_), f(_)) ==
    LET sel == SelectSeq(s, P) IN [i \in DOMAIN sel |-> f(sel[i])]

Min(a, b) == IF a < b THEN a ELSE b

\* [x for item in s for x in f(item)]
FlatMap(s, f(_)) ==
    LET acc[i \in 0..Len(s)] == IF i = 0 THEN <<>> ELSE acc[i - 1] \o f(s[i])
    IN acc[Len(s)]

\* s[:n]
Take(s, n) == SubSeq(s, 1, Min(n, Len(s)))

\* A string given by its characters, and one given by its lines.
JChars(chars) == [t |-> "str", s |-> "<chars>", chars |-> chars]
JLines(lines) == [t |-> "str", s |-> "<lines>", lines |-> lines]

\* text[:7], as characters.
First7(text) == IF "chars" \in DOMAIN text THEN Take(text.chars, 7) ELSE <<>>
\* text.split('\n')[0]
FirstLine(text) == IF "lines" \in DOMAIN text THEN text.lines[1] ELSE text.s

\* The values of s, each once, in the order of their first occurrence: the
\* key order of a dict filled in a loop over s.
Distinct(s) ==
    LET acc[i \in 0..Len(s)] ==
            IF i = 0 THEN <<>>
            ELSE IF \E j \in 1..(i - 1) : s[j] = s[i] THEN acc[i - 1]
            ELSE Append(acc[i - 1], s[i])
    IN acc[Len(s)]

\* The dict that counts the values of s.
Counts(s) ==
    [k \in {s[i] : i \in DOMAIN s} |-> Cardinality({i \in DOMAIN s : s[i] = k})]

\* sorted(s, key=..., reverse=True), given the order of the keys: a stable
\* sort, elements of equal key keep the order they have in s.
SortedReverse(s, less(_, _)) ==
    LET insert(r, x) ==
            LET before == {i \in DOMAIN r : less(r[i], x)}
                at == IF before = {} THEN Len(r) + 1
                      ELSE CHOOSE i \in before : \A j \in before : i <= j
            IN SubSeq(r, 1, at - 1) \o <<x>> \o SubSeq(r, at, Len(r))
        acc[i \in 0..Len(s)] == IF i = 0 THEN <<>> ELSE insert(acc[i - 1], s[i])
    IN acc[Len(s)]

\* max(keys, key=value): the first key, in the order of `keys`, of the
\* greatest value.
MaxKey(keys, value(_)) ==
    keys[CHOOSE i \in DOMAIN keys :
            /\ \A j \in DOMAIN keys : value(keys[j]) <= value(keys[i])
            /\ \A j \in 1..(i - 1) : value(keys[j]) < value(keys[i])]

\* The order of two date strings: "" sorts before every ISO-8601 text, and
\* ISO-8601 texts of one format sort as their instants.
DateTextLess(a, b) ==
    IF "at" \in DOMAIN b
    THEN IF "at" \in DOMAIN a THEN a.at < b.at ELSE TRUE
    ELSE FALSE

-----------------------------------------------------------------------------
(* Text.  A formatted string is the sequence of its parts (the literal text *)
(* and each interpolated value); the texts of the model are the file names  *)
(* below, the literals of the source and the names in the payloads.         *)

\* str.upper() of the file names of the model.
Upper(s) ==
    CASE s = "README.md" -> "README.MD"
      [] s = "readme.md" -> "README.MD"
      [] s = "security.md" -> "SECURITY.MD"
      [] s = "SECURITY.md" -> "SECURITY.MD"
      [] s = "CONTRIBUTING.md" -> "CONTRIBUTING.MD"
      [] s = "contributing.md" -> "CONTRIBUTING.MD"
      [] s = "CODE_OF_CONDUCT.md" -> "CODE_OF_CONDUCT.MD"
      [] s = "code_of_conduct.md" -> "CODE_OF_CONDUCT.MD"
      [] s = "package.json" -> "PACKAGE.JSON"
      [] s = "package-lock.json" -> "PACKAGE-LOCK.JSON"
      [] s = "requirements.txt" -> "REQUIREMENTS.TXT"
      [] s = ".travis.yml" -> ".TRAVIS.YML"
      [] s = "Jenkinsfile" -> "JENKINSFILE"
      [] s = ".github" -> ".GITHUB"
      [] s = "go.mod" -> "GO.MOD"
      [] s = "src" -> "SRC"
      [] OTHER -> s

\* needle in part, for the needles the health check looks for.
PartContains(part, needle) ==
    CASE needle = "README" ->
           part \in {"README found: ", "README.md", "README.MD", "README"}
      [] needle = "License" ->
           part \in {"License found: ", "MIT License", "License file found"}
      [] needle = "CI/CD" -> FALSE
      [] needle = "CONTRIBUTING" ->
           part \in {"CONTRIBUTING.MD", ".GITHUB/CONTRIBUTING.MD", "CONTRIBUTING.TXT"}
      [] needle = "CODE_OF_CONDUCT" ->
           part \in {"CODE_OF_CONDUCT.MD", ".GITHUB/CODE_OF_CONDUCT.MD"}
      [] OTHER -> FALSE

\* "security" in part.lower()
LowerContainsSecurity(part) ==
    part \in {"Security policy found: ", "SECURITY.md", "security.md",
              "SECURITY.txt", "security.txt", "Missing security policy (SECURITY.md)"}

\* needle in p, p a formatted string.
Contains(p, needle) == \E i \in DOMAIN p : PartContains(p[i], needle)

-----------------------------------------------------------------------------
(* Rationals, for the quotients Python computes in floating point *)

Rat(n, d) == IF d < 0 THEN [n |-> 0 - n, d |-> 0 - d] ELSE [n |-> n, d |-> d]
RLess(a, b) == a.n * b.d < b.n * a.d
RMin(a, b) == IF RLess(b, a) THEN b ELSE a
RAdd(a, b) == [n |-> a.n * b.d + b.n * a.d, d |-> a.d * b.d]
\* int(x): truncation towards zero.
RInt(a) == IF a.n >= 0 THEN a.n \div a.d ELSE 0 - ((0 - a.n) \div a.d)
\* round(x, 2), in hundredths.
RRound2(a) == (200 * a.n + a.d) \div (2 * a.d)

-----------------------------------------------------------------------------
(* src/src/contribution/contribution_analytics.py: scores and streaks *)

\* The calendar day and the hour of day of an instant.
DayOf(at) == at \div TicksPerDay
HourOf(at) == at % TicksPerDay

\* created_at of an item, parsed as lines 237, 248, 571 and 601 parse it.
CreatedAt(item) == fromisoformat(GetD(item.o, "created_at", JStr("")))

\* The first exception a `for x in s` loop over f(x) raises.
FirstRaise(s, f(_)) ==
    f(s[CHOOSE i \in DOMAIN s : ~f(s[i]).ok /\ \A j \in 1..(i - 1) : f(s[j]).ok])

\* No window: every item is kept.
CreatedAfter_All(s, days, at) == s
\* The items created strictly after `at - days`; every created_at parses.
CreatedAfter(s, days, at) ==
    SelectSeq(s, LAMBDA x : CreatedAt(x).v > at - days * TicksPerDay)

\* _calculate_activity_streak with a running streak that never resets.
_calculate_activity_streak_NoReset(daily_activity, localNow) ==
    [current_streak |-> Cardinality(DOMAIN daily_activity),
     longest_streak |-> Cardinality(DOMAIN daily_activity)]

\* Lines 430-466.  daily_activity maps a day to its count; localNow is
\* datetime.now().
_calculate_activity_streak(daily_activity, localNow) ==
    IF DOMAIN daily_activity = {} THEN [current_streak |-> 0, longest_streak |-> 0]
    ELSE
    LET days == DOMAIN daily_activity
        n == Cardinality(days)
        \* sorted(daily_activity.keys())
        sorted_days[i \in 1..n] ==
            CHOOSE d \in days : Cardinality({e \in days : e < d}) = i - 1
        temp_streak[i \in 1..n] ==
            IF i = 1 THEN 1
            ELSE IF sorted_days[i] - sorted_days[i - 1] = 1 THEN temp_streak[i - 1] + 1
            ELSE 1
        longest[i \in 0..n] ==
            IF i = 0 THEN 0
            ELSE IF temp_streak[i] > longest[i - 1] THEN temp_streak[i]
            ELSE longest[i - 1]
        today == DayOf(localNow)
        active == \/ today \in days
                  \/ DaysBetween(localNow, sorted_days[n] * TicksPerDay) <= 1
    IN [current_streak |-> IF active THEN temp_streak[n] ELSE 0,
        longest_streak |-> longest[n]]

\* Lines 469-495.  events is a list whose created_at all parse.
_calculate_activity_score(events, days) ==
    IF events = <<>> \/ days = 0 THEN 0
    ELSE
    LET base_score == RMin(Rat(Len(events) * 10, days), Rat(50, 1))
        activity_types == {GetD(events[i].o, "type", JStr("")) : i \in DOMAIN events}
        diversity_bonus == Min(Cardinality(activity_types) * 5, 30)
        active_days == Cardinality({DayOf(CreatedAt(events[i]).v) : i \in DOMAIN events})
        consistency_bonus == RMin(Rat(active_days * 20, days), Rat(20, 1))
        total_score == RAdd(RAdd(base_score, Rat(diversity_bonus, 1)), consistency_bonus)
    IN Min(RInt(total_score), 100)

\* _calculate_collaboration_score without the cap of each term.
_calculate_collaboration_score_NoCaps(forks, pr_events, issue_events) ==
    Min(forks * 5 + Len(pr_events) * 3 + Len(issue_events) * 2, 100)

\* Lines 498-513.
_calculate_collaboration_score(forks, pr_events, issue_events) ==
    Min(Min(forks * 5, 30) + Min(Len(pr_events) * 3, 40)
        + Min(Len(issue_events) * 2, 30), 100)

-----------------------------------------------------------------------------
(* src/src/contribution/contribution_analytics.py: the user report *)

NumOf(item, k) == GetD(item.o, k, JNum(0)).n

\* text[:100]: the one text of the model longer than 100 characters is cut.
First100(text) == IF text = "<a description of 120 characters>"
                  THEN "<its first 100 characters>" ELSE text

\* repo.get("description", "")[:100]: None cannot be sliced.
DescriptionHead(item) ==
    LET d == GetD(item.o, "description", JStr(""))
    IN IF d.t = "str" THEN Ret(JStr(First100(d.s))) ELSE Raise("TypeError")

\* The languages of the repositories that have one, in list order.
LanguagesOf(repos) ==
    LET withLang == SelectSeq(repos, LAMBDA r : Truthy(Get(r.o, "language")))
    IN [i \in DOMAIN withLang |-> Get(withLang[i].o, "language").s]

\* Lines 167-223.
_analyze_user_repositories(repos_data) ==
    IF repos_data = <<>> THEN Ret([total_repos |-> 0])
    ELSE
    LET total_stars == SeqSum([i \in DOMAIN repos_data |->
                                  NumOf(repos_data[i], "stargazers_count")])
        popular_repos == Take(SortedReverse(repos_data,
                            LAMBDA a, b : NumOf(a, "stargazers_count")
                                          < NumOf(b, "stargazers_count")), 10)
        recent_repos == Take(SortedReverse(repos_data,
                            LAMBDA a, b : DateTextLess(GetD(a.o, "updated_at", JStr("")),
                                                       GetD(b.o, "updated_at", JStr("")))), 10)
        shown == Take(popular_repos, 5) \o Take(recent_repos, 5)
    IN IF \E i \in DOMAIN shown : ~DescriptionHead(shown[i]).ok
       THEN FirstRaise(shown, DescriptionHead)
       ELSE Ret(
        [total_repos |-> Len(repos_data),
         owned_repos |-> Len(SelectSeq(repos_data,
                            LAMBDA r : ~Truthy(GetD(r.o, "fork", JBool(FALSE))))),
         forked_repos |-> Len(SelectSeq(repos_data,
                            LAMBDA r : Truthy(GetD(r.o, "fork", JBool(FALSE))))),
         total_stars_received |-> total_stars,
         total_forks_received |->
             SeqSum([i \in DOMAIN repos_data |-> NumOf(repos_data[i], "forks_count")]),
         total_watchers |->
             SeqSum([i \in DOMAIN repos_data |-> NumOf(repos_data[i], "watchers_count")]),
         average_stars_per_repo |-> RRound2(Rat(total_stars, Len(repos_data))),
         languages |-> Counts(LanguagesOf(repos_data)),
         most_popular_repos |->
             [i \in DOMAIN Take(popular_repos, 5) |->
                 [name |-> Get(popular_repos[i].o, "name"),
                  stars |-> NumOf(popular_repos[i], "stargazers_count"),
                  forks |-> NumOf(popular_repos[i], "forks_count"),
                  language |-> Get(popular_repos[i].o, "language"),
                  description |-> DescriptionHead(popular_repos[i]).v]],
         recently_updated |->
             [i \in DOMAIN Take(recent_repos, 5) |->
                 [name |-> Get(recent_repos[i].o, "name"),
                  updated_at |-> Get(recent_repos[i].o, "updated_at"),
                  language |-> Get(recent_repos[i].o, "language"),
                  description |-> DescriptionHead(recent_repos[i]).v]]])

\* event.get("repo", {}).get("name", dflt)
EventRepoName(event, dflt) == GetD(GetD(event.o, "repo", JObj(<<>>)).o, "name", dflt)

\* Lines 226-278.  `at` is datetime.now(timezone.utc), localNow is
\* datetime.now().
_analyze_user_activity(events_data, days, at, localNow) ==
    IF events_data = <<>> THEN Ret([total_events |-> 0])
    ELSE IF \E i \in DOMAIN events_data : ~CreatedAt(events_data[i]).ok
    THEN FirstRaise(events_data, CreatedAt)
    ELSE
    LET recent_events == CreatedAfter(events_data, days, at)
        daily_activity ==
            Counts([i \in DOMAIN recent_events |-> DayOf(CreatedAt(recent_events[i]).v)])
        hourly_activity ==
            Counts([i \in DOMAIN recent_events |-> HourOf(CreatedAt(recent_events[i]).v)])
        hours == Distinct([i \in DOMAIN recent_events |->
                              HourOf(CreatedAt(recent_events[i]).v)])
        repo_names == [i \in DOMAIN recent_events |->
                          EventRepoName(recent_events[i], JStr("Unknown")).s]
        repo_activity == Counts(repo_names)
        top_repos == Take(SortedReverse(Distinct(repo_names),
                            LAMBDA a, b : repo_activity[a] < repo_activity[b]), 10)
    IN Ret(
        [total_events |-> Len(recent_events),
         activity_types |-> Counts([i \in DOMAIN recent_events |->
                               GetD(recent_events[i].o, "type", JStr("Unknown")).s]),
         daily_activity |-> daily_activity,
         hourly_patterns |-> hourly_activity,
         most_active_repos |-> [k \in {top_repos[i] : i \in DOMAIN top_repos} |->
                                   repo_activity[k]],
         activity_streak |-> _calculate_activity_streak(daily_activity, localNow),
         average_daily_activity |->
             IF days > 0 THEN RRound2(Rat(Len(recent_events), days)) ELSE 0,
         most_active_hour |->
             IF hours # <<>> THEN JNum(MaxKey(hours, LAMBDA h : hourly_activity[h]))
             ELSE JNull,
         activity_score |-> _calculate_activity_score(recent_events, days)])

\* Lines 281-318.
_analyze_user_languages(repos_data) ==
    LET withLang == SelectSeq(repos_data, LAMBDA r : Truthy(Get(r.o, "language")))
        langs == LanguagesOf(repos_data)
        languages == Counts(langs)
        keys == Distinct(langs)
        reposOf(lang) == SelectSeq(withLang, LAMBDA r : Get(r.o, "language").s = lang)
        stars(lang) == SeqSum([i \in DOMAIN reposOf(lang) |->
                                  NumOf(reposOf(lang)[i], "stargazers_count")])
        brief(r) == [name |-> Get(r.o, "name"),
                     stars |-> NumOf(r, "stargazers_count"),
                     updated_at |-> Get(r.o, "updated_at")]
    IN [total_languages |-> Cardinality(DOMAIN languages),
        language_distribution |-> languages,
        language_diversity_score |->
            IF Len(withLang) > 0
            THEN RRound2(Rat(Cardinality(DOMAIN languages), Len(withLang))) ELSE 0,
        most_used_language |->
            IF keys # <<>> THEN JStr(MaxKey(keys, LAMBDA k : languages[k])) ELSE JNull,
        most_popular_by_stars |->
            IF keys # <<>> THEN JStr(MaxKey(keys, stars)) ELSE JNull,
        language_repos |->
            [k \in DOMAIN languages |->
                LET top == Take(SortedReverse(reposOf(k),
                               LAMBDA a, b : NumOf(a, "stargazers_count")
                                             < NumOf(b, "stargazers_count")), 3)
                IN [i \in DOMAIN top |-> brief(top[i])]]]

\* Lines 321-346.
_analyze_collaboration_metrics(repos_data, events_data) ==
    LET fork_count == Len(SelectSeq(repos_data,
                            LAMBDA r : Truthy(GetD(r.o, "fork", JBool(FALSE)))))
        pr_events == SelectSeq(events_data,
                        LAMBDA e : Get(e.o, "type") = JStr("PullRequestEvent"))
        issue_events == SelectSeq(events_data,
                           LAMBDA e : Get(e.o, "type") = JStr("IssuesEvent"))
        contributed_repos ==
            {EventRepoName(events_data[i], JNull) : i \in DOMAIN events_data}
            \ {JNull, JStr("")}
    IN [total_forks_created |-> fork_count,
        recent_pr_activity |-> Len(pr_events),
        recent_issue_activity |-> Len(issue_events),
        unique_repos_contributed |-> Cardinality(contributed_repos),
        collaboration_score |->
            _calculate_collaboration_score(fork_count, pr_events, issue_events),
        contribution_diversity |->
            IF repos_data # <<>>
            THEN Rat(Cardinality(contributed_repos), Len(repos_data)) ELSE Rat(0, 1)]

\* Lines 349-386.
_analyze_starred_repos(starred_data) ==
    IF starred_data = <<>> THEN Ret([total_starred |-> 0])
    ELSE
    LET popular_starred == Take(SortedReverse(starred_data,
                              LAMBDA a, b : NumOf(a, "stargazers_count")
                                            < NumOf(b, "stargazers_count")), 10)
        shown == Take(popular_starred, 5)
        topicList == FlatMap(starred_data, LAMBDA r : GetD(r.o, "topics", JList(<<>>)).l)
        topics == Counts(topicList)
        top_topics == Take(SortedReverse(Distinct(topicList),
                             LAMBDA a, b : topics[a] < topics[b]), 10)
    IN IF \E i \in DOMAIN shown : ~DescriptionHead(shown[i]).ok
       THEN FirstRaise(shown, DescriptionHead)
       ELSE Ret(
        [total_starred |-> Len(starred_data),
         language_interests |-> Counts(LanguagesOf(starred_data)),
         topic_interests |-> [k \in {top_topics[i] : i \in DOMAIN top_topics} |-> topics[k]],
         most_popular_starred |->
             [i \in DOMAIN shown |->
                 [name |-> Get(shown[i].o, "full_name"),
                  stars |-> NumOf(shown[i], "stargazers_count"),
                  language |-> Get(shown[i].o, "language"),
                  description |-> DescriptionHead(shown[i]).v]]])

\* Lines 120-164.
_analyze_user_contributions(user_data, repos_data, events_data, starred_data, days, at, localNow) ==
    LET profile == [username |-> Get(user_data, "login"),
                    name |-> Get(user_data, "name"),
                    bio |-> Get(user_data, "bio"),
                    location |-> Get(user_data, "location"),
                    company |-> Get(user_data, "company"),
                    blog |-> Get(user_data, "blog"),
                    public_repos |-> GetD(user_data, "public_repos", JNum(0)),
                    public_gists |-> GetD(user_data, "public_gists", JNum(0)),
                    followers |-> GetD(user_data, "followers", JNum(0)),
                    following |-> GetD(user_data, "following", JNum(0)),
                    created_at |-> Get(user_data, "created_at"),
                    updated_at |-> Get(user_data, "updated_at")]
        repo_analytics == _analyze_user_repositories(repos_data)
        activity_analytics == _analyze_user_activity(events_data, days, at, localNow)
        starred_analytics == _analyze_starred_repos(starred_data)
    IN IF ~repo_analytics.ok THEN repo_analytics
       ELSE IF ~activity_analytics.ok THEN activity_analytics
       ELSE IF ~starred_analytics.ok THEN starred_analytics
       ELSE Ret([profile |-> profile,
                 repositories |-> repo_analytics.v,
                 activity |-> activity_analytics.v,
                 languages |-> _analyze_user_languages(repos_data),
                 collaboration |-> _analyze_collaboration_metrics(repos_data, events_data),
                 starred |-> starred_analytics.v,
                 analysis_period_days |-> days])

-----------------------------------------------------------------------------
(* src/src/contribution/contribution_analytics.py: the repository report *)

\* Lines 516-536.
_analyze_contributors(contributors_data) ==
    IF contributors_data = <<>> THEN [total_contributors |-> 0]
    ELSE [total_contributors |-> Len(contributors_data),
          total_contributions |->
              SeqSum([i \in DOMAIN contributors_data |->
                         NumOf(contributors_data[i], "contributions")]),
          top_contributors |->
              [i \in DOMAIN Take(contributors_data, 10) |->
                  [username |-> Get(contributors_data[i].o, "login"),
                   contributions |-> NumOf(contributors_data[i], "contributions"),
                   avatar_url |-> Get(contributors_data[i].o, "avatar_url")]]]

\* commit.get("commit", {}).get("author", {}).get("name", "Unknown")
CommitAuthorName(commit) ==
    GetD(GetD(GetD(commit.o, "commit", JObj(<<>>)).o, "author", JObj(<<>>)).o,
         "name", JStr("Unknown")).s

\* Lines 539-557.
_analyze_recent_commits(commits_data, days) ==
    IF commits_data = <<>> THEN [total_commits |-> 0]
    ELSE
    LET names == [i \in DOMAIN commits_data |-> CommitAuthorName(commits_data[i])]
        authors == Counts(names)
        top == Take(SortedReverse(Distinct(names),
                       LAMBDA a, b : authors[a] < authors[b]), 10)
    IN [total_commits |-> Len(commits_data),
        unique_authors |-> Cardinality(DOMAIN authors),
        commits_per_day |->
            IF days > 0 THEN RRound2(Rat(Len(commits_data), days)) ELSE 0,
        top_committers |-> [k \in {top[i] : i \in DOMAIN top} |-> authors[k]]]

\* Lines 560-584.
_analyze_prs(prs_data, days, at) ==
    IF prs_data = <<>> THEN Ret([total_prs |-> 0])
    ELSE IF \E i \in DOMAIN prs_data : ~CreatedAt(prs_data[i]).ok
    THEN FirstRaise(prs_data, CreatedAt)
    ELSE
    LET recent_prs == CreatedAfter(prs_data, days, at)
    IN Ret([total_prs |-> Len(prs_data),
            recent_prs |-> Len(recent_prs),
            pr_states |-> Counts([i \in DOMAIN prs_data |->
                                     GetD(prs_data[i].o, "state", JStr("unknown")).s]),
            prs_per_day |-> IF days > 0 THEN RRound2(Rat(Len(recent_prs), days)) ELSE 0])

\* Lines 587-614.
_analyze_issues(issues_data, days, at) ==
    IF issues_data = <<>> THEN Ret([total_issues |-> 0])
    ELSE
    LET actual_issues == SelectSeq(issues_data,
                            LAMBDA x : ~Truthy(Get(x.o, "pull_request")))
    IN IF \E i \in DOMAIN actual_issues : ~CreatedAt(actual_issues[i]).ok
       THEN FirstRaise(actual_issues, CreatedAt)
       ELSE
       LET recent_issues == CreatedAfter(actual_issues, days, at)
       IN Ret([total_issues |-> Len(actual_issues),
               recent_issues |-> Len(recent_issues),
               issue_states |-> Counts([i \in DOMAIN actual_issues |->
                                   GetD(actual_issues[i].o, "state", JStr("unknown")).s]),
               issues_per_day |->
                   IF days > 0 THEN RRound2(Rat(Len(recent_issues), days)) ELSE 0])

\* Lines 389-427.
_analyze_repository_contributions(repo_data, contributors_data, commits_data, prs_data, issues_data, days, at) ==
    LET repo_info == [name |-> Get(repo_data, "full_name"),
                      description |-> Get(repo_data, "description"),
                      language |-> Get(repo_data, "language"),
                      stars |-> GetD(repo_data, "stargazers_count", JNum(0)),
                      forks |-> GetD(repo_data, "forks_count", JNum(0)),
                      watchers |-> GetD(repo_data, "watchers_count", JNum(0)),
                      open_issues |-> GetD(repo_data, "open_issues_count", JNum(0)),
                      created_at |-> Get(repo_data, "created_at"),
                      updated_at |-> Get(repo_data, "updated_at")]
        prs_analysis == _analyze_prs(prs_data, days, at)
        issues_analysis == _analyze_issues(issues_data, days, at)
    IN IF ~prs_analysis.ok THEN prs_analysis
       ELSE IF ~issues_analysis.ok THEN issues_analysis
       ELSE Ret([repository |-> repo_info,
                 contributors |-> _analyze_contributors(contributors_data),
                 commits |-> _analyze_recent_commits(commits_data, days),
                 pull_requests |-> prs_analysis.v,
                 issues |-> issues_analysis.v,
                 analysis_period_days |-> days])

-----------------------------------------------------------------------------
(* src/src/issue_and_pr_management/pr_reviews.py: the PR review summary *)

\* filename.split(".")[-1].lower() of the file names of the model, "" for a
\* name without a dot.
Extension(filename) ==
    CASE filename \in {"app.py", "tests/test_app.py"} -> "py"
      [] filename = "index.JS" -> "js"
      [] filename = "main.go" -> "go"
      [] filename = "lib.rs" -> "rs"
      [] filename = "notes.xyz" -> "xyz"
      [] OTHER -> ""

\* Lines 270-305.
_detect_language(filename) ==
    LET ext == Extension(filename)
    IN CASE ext = "py" -> "Python"
         [] ext = "js" -> "JavaScript"
         [] ext = "go" -> "Go"
         [] ext = "rs" -> "Rust"
         [] OTHER -> "Unknown"

\* Lines 107-168.
_analyze_file_changes(files_data) ==
    IF files_data = <<>> THEN [total_files |-> 0, changes |-> <<>>]
    ELSE
    LET name(f) == GetD(f.o, "filename", JStr("")).s
        total_additions == SeqSum([i \in DOMAIN files_data |->
                                      NumOf(files_data[i], "additions")])
        total_deletions == SeqSum([i \in DOMAIN files_data |->
                                      NumOf(files_data[i], "deletions")])
        dotted == SelectSeq(files_data, LAMBDA f : Extension(name(f)) # "")
        large == SelectSeq(files_data, LAMBDA f : NumOf(f, "changes") > 100)
    IN [total_files |-> Len(files_data),
        total_additions |-> total_additions,
        total_deletions |-> total_deletions,
        net_changes |-> total_additions - total_deletions,
        file_types |-> Counts([i \in DOMAIN dotted |-> Extension(name(dotted[i]))]),
        languages |-> Counts([i \in DOMAIN files_data |->
                                 _detect_language(name(files_data[i]))]),
        large_files |-> [i \in DOMAIN large |->
                            [filename |-> name(large[i]),
                             changes |-> NumOf(large[i], "changes"),
                             status |-> GetD(large[i].o, "status", JStr(""))]],
        changes |-> [i \in DOMAIN files_data |->
                        [filename |-> name(files_data[i]),
                         status |-> GetD(files_data[i].o, "status", JStr("")),
                         additions |-> NumOf(files_data[i], "additions"),
                         deletions |-> NumOf(files_data[i], "deletions"),
                         changes |-> NumOf(files_data[i], "changes"),
                         language |-> _detect_language(name(files_data[i]))]]]

\* Lines 171-201.
_analyze_commits(commits_data) ==
    IF commits_data = <<>> THEN [total_commits |-> 0, commits |-> <<>>]
    ELSE
    LET info(c) == GetD(c.o, "commit", JObj(<<>>)).o
        author(c) == GetD(info(c), "author", JObj(<<>>)).o
        names == [i \in DOMAIN commits_data |->
                     GetD(author(commits_data[i]), "name", JStr("Unknown")).s]
    IN [total_commits |-> Len(commits_data),
        unique_authors |-> Cardinality({names[i] : i \in DOMAIN names}),
        authors |-> Counts(names),
        commits |-> [i \in DOMAIN commits_data |->
                        [sha |-> First7(GetD(commits_data[i].o, "sha", JStr(""))),
                         message |-> FirstLine(GetD(info(commits_data[i]), "message",
                                                    JStr(""))),
                         author |-> names[i],
                         date |-> Get(author(commits_data[i]), "date"),
                         url |-> Get(commits_data[i].o, "html_url")]]]

\* Lines 204-236.
_analyze_reviews(reviews_data) ==
    IF reviews_data = <<>> THEN [total_reviews |-> 0, reviews |-> <<>>]
    ELSE
    LET state(r) == GetD(r.o, "state", JStr("")).s
        reviewer(r) == GetD(GetD(r.o, "user", JObj(<<>>)).o, "login", JStr("Unknown")).s
    IN [total_reviews |-> Len(reviews_data),
        review_states |-> Counts([i \in DOMAIN reviews_data |-> state(reviews_data[i])]),
        reviewers |-> Counts([i \in DOMAIN reviews_data |-> reviewer(reviews_data[i])]),
        reviews |-> [i \in DOMAIN reviews_data |->
                        [id |-> Get(reviews_data[i].o, "id"),
                         state |-> state(reviews_data[i]),
                         reviewer |-> reviewer(reviews_data[i]),
                         body |-> GetD(reviews_data[i].o, "body", JStr("")),
                         submitted_at |-> Get(reviews_data[i].o, "submitted_at"),
                         url |-> Get(reviews_data[i].o, "html_url")]]]

\* Lines 239-267.
_analyze_comments(comments_data) ==
    IF comments_data = <<>> THEN [total_comments |-> 0, comments |-> <<>>]
    ELSE
    LET commenter(c) == GetD(GetD(c.o, "user", JObj(<<>>)).o, "login", JStr("Unknown")).s
    IN [total_comments |-> Len(comments_data),
        commenters |-> Counts([i \in DOMAIN comments_data |->
                                  commenter(comments_data[i])]),
        comments |-> [i \in DOMAIN comments_data |->
                         [id |-> Get(comments_data[i].o, "id"),
                          body |-> GetD(comments_data[i].o, "body", JStr("")),
                          author |-> commenter(comments_data[i]),
                          created_at |-> Get(comments_data[i].o, "created_at"),
                          path |-> Get(comments_data[i].o, "path"),
                          line |-> Get(comments_data[i].o, "line"),
                          url |-> Get(comments_data[i].o, "html_url")]]]

\* _calculate_complexity_score reporting the sum without the cap of 100.
_calculate_complexity_score_NoCap(file_analysis, commit_analysis) ==
    LET file_count == GetD(file_analysis, "total_files", 0)
        total_changes == GetD(file_analysis, "total_additions", 0)
                         + GetD(file_analysis, "total_deletions", 0)
        lang_count == Cardinality(DOMAIN GetD(file_analysis, "languages", <<>>))
        large_files == Len(GetD(file_analysis, "large_files", <<>>))
        commit_count == GetD(commit_analysis, "total_commits", 0)
        score == (IF file_count > 20 THEN 30 ELSE IF file_count > 10 THEN 15 ELSE 0)
                 + (IF total_changes > 1000 THEN 40
                    ELSE IF total_changes > 500 THEN 20 ELSE 0)
                 + (IF lang_count > 3 THEN 15 ELSE 0)
                 + (IF large_files > 0 THEN 15 ELSE 0)
                 + (IF commit_count > 10 THEN 10 ELSE 0)
    IN [score |-> score,
        level |-> IF score > 70 THEN "High" ELSE IF score > 30 THEN "Medium" ELSE "Low",
        factors |->
            (IF file_count > 20 THEN <<"High file count">>
             ELSE IF file_count > 10 THEN <<"Moderate file count">> ELSE <<>>)
            \o (IF total_changes > 1000 THEN <<"Large number of changes">>
                ELSE IF total_changes > 500 THEN <<"Moderate number of changes">>
                ELSE <<>>)
            \o (IF lang_count > 3 THEN <<"Multiple languages">> ELSE <<>>)
            \o (IF large_files > 0 THEN <<"Large file changes">> ELSE <<>>)
            \o (IF commit_count > 10 THEN <<"Many commits">> ELSE <<>>)]

\* Lines 322-369.
_calculate_complexity_score(file_analysis, commit_analysis) ==
    LET file_count == GetD(file_analysis, "total_files", 0)
        total_changes == GetD(file_analysis, "total_additions", 0)
                         + GetD(file_analysis, "total_deletions", 0)
        lang_count == Cardinality(DOMAIN GetD(file_analysis, "languages", <<>>))
        large_files == Len(GetD(file_analysis, "large_files", <<>>))
        commit_count == GetD(commit_analysis, "total_commits", 0)
        score == (IF file_count > 20 THEN 30 ELSE IF file_count > 10 THEN 15 ELSE 0)
                 + (IF total_changes > 1000 THEN 40
                    ELSE IF total_changes > 500 THEN 20 ELSE 0)
                 + (IF lang_count > 3 THEN 15 ELSE 0)
                 + (IF large_files > 0 THEN 15 ELSE 0)
                 + (IF commit_count > 10 THEN 10 ELSE 0)
    IN [score |-> Min(score, 100),
        level |-> IF score > 70 THEN "High" ELSE IF score > 30 THEN "Medium" ELSE "Low",
        factors |->
            (IF file_count > 20 THEN <<"High file count">>
             ELSE IF file_count > 10 THEN <<"Moderate file count">> ELSE <<>>)
            \o (IF total_changes > 1000 THEN <<"Large number of changes">>
                ELSE IF total_changes > 500 THEN <<"Moderate number of changes">>
                ELSE <<>>)
            \o (IF lang_count > 3 THEN <<"Multiple languages">> ELSE <<>>)
            \o (IF large_files > 0 THEN <<"Large file changes">> ELSE <<>>)
            \o (IF commit_count > 10 THEN <<"Many commits">> ELSE <<>>)]

\* _assess_review_status calling a pull request with an approval ready to
\* merge whatever else was asked of it.
_assess_review_status_ApprovedWins(review_analysis) ==
    LET states == GetD(review_analysis, "review_states", <<>>)
        total_reviews == GetD(review_analysis, "total_reviews", 0)
        approved == GetD(states, "APPROVED", 0)
        changes_requested == GetD(states, "CHANGES_REQUESTED", 0)
    IN [status |-> IF approved > 0 THEN "Ready to merge"
                   ELSE IF changes_requested > 0 THEN "Changes requested"
                   ELSE IF total_reviews > 0 THEN "Under review"
                   ELSE "Awaiting review",
        approved_count |-> approved,
        changes_requested_count |-> changes_requested,
        comment_count |-> GetD(states, "COMMENTED", 0),
        total_reviews |-> total_reviews]

\* Lines 372-398.
_assess_review_status(review_analysis) ==
    LET states == GetD(review_analysis, "review_states", <<>>)
        total_reviews == GetD(review_analysis, "total_reviews", 0)
        approved == GetD(states, "APPROVED", 0)
        changes_requested == GetD(states, "CHANGES_REQUESTED", 0)
    IN [status |-> IF approved > 0 /\ changes_requested = 0 THEN "Ready to merge"
                   ELSE IF changes_requested > 0 THEN "Changes requested"
                   ELSE IF total_reviews > 0 THEN "Under review"
                   ELSE "Awaiting review",
        approved_count |-> approved,
        changes_requested_count |-> changes_requested,
        comment_count |-> GetD(states, "COMMENTED", 0),
        total_reviews |-> total_reviews]

\* pr_info.get("description", "").strip(): None has no strip(); the
\* whitespace-only text of the model strips to "".
StrippedDescription(pr_info) ==
    LET d == GetD(pr_info, "description", JStr(""))
    IN IF d.t # "str" THEN Raise("AttributeError")
       ELSE Ret(IF d.s = "   " THEN "" ELSE d.s)

\* Lines 401-432.
_identify_risk_factors(pr_info, file_analysis, commit_analysis) ==
    IF ~StrippedDescription(pr_info).ok THEN StrippedDescription(pr_info)
    ELSE Ret(
        (IF GetD(file_analysis, "total_files", 0) > 20
         THEN <<"Large PR - consider breaking into smaller PRs">> ELSE <<>>)
        \o (IF Cardinality(DOMAIN GetD(file_analysis, "languages", <<>>)) > 3
            THEN <<"Multiple languages modified - ensure consistent changes">>
            ELSE <<>>)
        \o (IF GetD(file_analysis, "large_files", <<>>) # <<>>
            THEN <<"Large files modified - review carefully for maintainability">>
            ELSE <<>>)
        \o (IF StrippedDescription(pr_info).v = ""
            THEN <<"No PR description - add context for reviewers">> ELSE <<>>)
        \o (IF GetD(commit_analysis, "total_commits", 0) > 15
            THEN <<"Many commits - consider squashing">> ELSE <<>>)
        \o (IF pr_info.mergeable = JBool(FALSE)
            THEN <<"PR has merge conflicts - resolve before merging">> ELSE <<>>))

\* "test" in filename.lower(), for the file names of the model.
MentionsTest(filename) == filename = "tests/test_app.py"

\* Lines 435-462.
_generate_recommendations(pr_info, file_analysis, commit_analysis, review_analysis) ==
    IF ~StrippedDescription(pr_info).ok THEN StrippedDescription(pr_info)
    ELSE
    LET changes == GetD(file_analysis, "changes", <<>>)
        test_files == SelectSeq(changes, LAMBDA f : MentionsTest(f.filename))
    IN Ret(
        (IF GetD(review_analysis, "total_reviews", 0) = 0
         THEN <<"Request reviews from relevant team members">> ELSE <<>>)
        \o (IF StrippedDescription(pr_info).v = ""
            THEN <<"Add detailed PR description explaining changes">> ELSE <<>>)
        \o (IF test_files = <<>> /\ GetD(file_analysis, "total_files", 0) > 0
            THEN <<"Consider adding tests for new functionality">> ELSE <<>>)
        \o (IF GetD(file_analysis, "total_files", 0) > 20
            THEN <<"Consider breaking large PR into smaller, focused PRs">> ELSE <<>>)
        \o (IF GetD(commit_analysis, "total_commits", 0) > 10
            THEN <<"Consider squashing commits for cleaner history">> ELSE <<>>))

\* Lines 308-319.
_generate_insights(pr_info, file_analysis, commit_analysis, review_analysis) ==
    LET risks == _identify_risk_factors(pr_info, file_analysis, commit_analysis)
        recs == _generate_recommendations(pr_info, file_analysis, commit_analysis,
                                          review_analysis)
    IN IF ~risks.ok THEN risks
       ELSE IF ~recs.ok THEN recs
       ELSE Ret([complexity_score |->
                     _calculate_complexity_score(file_analysis, commit_analysis),
                 review_status |-> _assess_review_status(review_analysis),
                 risk_factors |-> risks.v,
                 recommendations |-> recs.v])

\* Lines 61-104.
_analyze_pr_data(pr_data, files_data, commits_data, reviews_data, comments_data) ==
    LET pr_info == [number |-> Get(pr_data, "number"),
                    title |-> Get(pr_data, "title"),
                    state |-> Get(pr_data, "state"),
                    merged |-> GetD(pr_data, "merged", JBool(FALSE)),
                    mergeable |-> Get(pr_data, "mergeable"),
                    author |-> Get(GetD(pr_data, "user", JObj(<<>>)).o, "login"),
                    created_at |-> Get(pr_data, "created_at"),
                    updated_at |-> Get(pr_data, "updated_at"),
                    base_branch |-> Get(GetD(pr_data, "base", JObj(<<>>)).o, "ref"),
                    head_branch |-> Get(GetD(pr_data, "head", JObj(<<>>)).o, "ref"),
                    url |-> Get(pr_data, "html_url"),
                    description |-> GetD(pr_data, "body", JStr(""))]
        file_analysis == _analyze_file_changes(files_data)
        commit_analysis == _analyze_commits(commits_data)
        review_analysis == _analyze_reviews(reviews_data)
        insights == _generate_insights(pr_info, file_analysis, commit_analysis,
                                       review_analysis)
    IN IF ~insights.ok THEN insights
       ELSE Ret([pr_info |-> pr_info,
                 file_changes |-> file_analysis,
                 commits |-> commit_analysis,
                 reviews |-> review_analysis,
                 comments |-> _analyze_comments(comments_data),
                 insights |-> insights.v])

-----------------------------------------------------------------------------
(* src/src/repo_management/branches.py: the branch status overview *)

\* branch.get("commit", {}).get("commit", {})
BranchCommitData(branch) ==
    GetD(GetD(branch.o, "commit", JObj(<<>>)).o, "commit", JObj(<<>>)).o
BranchAuthor(branch) == GetD(BranchCommitData(branch), "author", JObj(<<>>)).o

\* Lines 65-68: the order of the sort keys (name != default_branch, date) of
\* two branches; False sorts before True.
BranchKeyLess(a, b, default_branch) ==
    LET na == Get(a.o, "name") # default_branch
        nb == Get(b.o, "name") # default_branch
        da == GetD(BranchAuthor(a), "date", JStr(""))
        db == GetD(BranchAuthor(b), "date", JStr(""))
    IN (~na /\ nb) \/ (na = nb /\ DateTextLess(da, db))

\* Lines 62-68.
sorted_branches(branches, default_branch) ==
    SortedReverse(branches, LAMBDA a, b : BranchKeyLess(a, b, default_branch))

\* pr_map keeping the first PR of the listing with the head ref.
pr_map_First(prs, name) ==
    LET head_ref(pr) == Get(GetD(pr.o, "head", JObj(<<>>)).o, "ref")
        hits == SelectSeq(prs, LAMBDA pr : Truthy(head_ref(pr)) /\ head_ref(pr) = name)
        pr == hits[1]
    IN IF hits = <<>> THEN JNull
       ELSE JObj([number |-> Get(pr.o, "number"),
                  state |-> Get(pr.o, "state"),
                  merged |-> GetD(pr.o, "merged", JBool(FALSE)),
                  title |-> GetD(pr.o, "title", JStr("")),
                  url |-> GetD(pr.o, "html_url", JStr(""))])

\* Lines 49-60: the summary kept for a head ref, the last PR of the listing
\* with that head ref; JNull when there is none.
pr_map(prs, name) ==
    LET head_ref(pr) == Get(GetD(pr.o, "head", JObj(<<>>)).o, "ref")
        hits == SelectSeq(prs, LAMBDA pr : Truthy(head_ref(pr)) /\ head_ref(pr) = name)
        pr == hits[Len(hits)]
    IN IF hits = <<>> THEN JNull
       ELSE JObj([number |-> Get(pr.o, "number"),
                  state |-> Get(pr.o, "state"),
                  merged |-> GetD(pr.o, "merged", JBool(FALSE)),
                  title |-> GetD(pr.o, "title", JStr("")),
                  url |-> GetD(pr.o, "html_url", JStr(""))])

\* Lines 80-94.
date_display(commit_date, at) ==
    IF commit_date = JStr("Unknown") THEN [raw |-> commit_date]
    ELSE IF ~fromisoformat(commit_date).ok THEN [raw |-> commit_date]
    ELSE [raw |-> commit_date,
          formatted |-> [day |-> DayOf(fromisoformat(commit_date).v),
                         hour |-> HourOf(fromisoformat(commit_date).v)],
          days_ago |-> DaysBetween(at, fromisoformat(commit_date).v)]

\* Lines 40-127: the overview computed from the three decoded bodies.
BranchOverview(owner, repo, branches, repo_data, prs, at) ==
    LET default_branch == GetD(repo_data, "default_branch", JStr("main"))
        row(branch) ==
            LET name == GetD(branch.o, "name", JStr("Unknown"))
                commit == GetD(branch.o, "commit", JObj(<<>>)).o
                commit_data == BranchCommitData(branch)
            IN [name |-> name,
                is_default |-> name = default_branch,
                commit |-> [sha |-> First7(GetD(commit, "sha", JStr(""))),
                            author |-> GetD(BranchAuthor(branch), "name", JStr("Unknown")),
                            date |-> date_display(
                                GetD(BranchAuthor(branch), "date", JStr("Unknown")), at),
                            message |-> FirstLine(
                                GetD(commit_data, "message", JStr("No message")))],
                pull_request |-> pr_map(prs, name)]
        sorted == sorted_branches(branches, default_branch)
    IN IF branches = <<>>
       THEN [owner |-> owner, repo |-> repo, branches |-> <<>>,
             default_branch |-> default_branch,
             message |-> <<"No branches found in ", owner, "/", repo>>]
       ELSE [owner |-> owner, repo |-> repo,
             default_branch |-> default_branch,
             total_branches |-> Len(branches),
             branches |-> [i \in DOMAIN sorted |-> row(sorted[i])]]

-----------------------------------------------------------------------------
(* src/src/repo_management/health.py: the checks of the health report *)

\* item.get("name", "") of an entry of the contents listing.
ItemName(item) == GetD(item.o, "name", JStr("")).s
ItemType(item) == GetD(item.o, "type", JStr("")).s

\* The entries a `for item in contents` loop visits with item.get(...): a
\* listing is a list of objects; the keys of an error object, or any entry
\* that is no object, have no get().
ListingItems(contents) ==
    CASE contents.t = "list" ->
           IF \A i \in DOMAIN contents.l : contents.l[i].t = "obj"
           THEN Ret(contents.l) ELSE Raise("AttributeError")
      [] contents.t = "obj" ->
           IF DOMAIN contents.o = {} THEN Ret(<<>>) ELSE Raise("AttributeError")
      [] contents.t = "str" ->
           IF contents.s = "" THEN Ret(<<>>) ELSE Raise("AttributeError")
      [] OTHER -> Raise("TypeError")

readme_files == {"README.md", "readme.md", "README.txt", "readme.txt", "README.rst", "README"}

_check_readme(items) ==
    LET upper == {Upper(f) : f \in readme_files}
        hits == SelectSeq(items, LAMBDA it : Upper(ItemName(it)) \in upper)
    IN IF hits # <<>> THEN [exists |-> TRUE, file |-> ItemName(hits[1])]
       ELSE [exists |-> FALSE]

license_files == {"LICENSE", "LICENSE.md", "LICENSE.txt", "license", "license.md", "license.txt"}

_check_license(items, repo_data) ==
    LET license_info == Get(repo_data, "license")
        hits == SelectSeq(items, LAMBDA it : ItemName(it) \in license_files)
    IN IF Truthy(license_info)
       THEN [exists |-> TRUE, license |-> GetD(license_info.o, "name", JStr("Unknown")).s]
       ELSE IF hits # <<>> THEN [exists |-> TRUE, license |-> "License file found"]
       ELSE [exists |-> FALSE]

security_files == {"SECURITY.md", "security.md", ".github/SECURITY.md", "SECURITY.txt", "security.txt"}

_check_security_files(items) ==
    LET hits == SelectSeq(items, LAMBDA it : ItemName(it) \in security_files)
    IN [score |-> 5 * Len(hits),
        good |-> [i \in DOMAIN hits |-> <<"Security policy found: ", ItemName(hits[i])>>],
        issues |-> IF hits = <<>> THEN << <<"Missing security policy (SECURITY.md)">> >>
                   ELSE <<>>]

contributing_files == {"CONTRIBUTING.md", "contributing.md", ".github/CONTRIBUTING.md", "CONTRIBUTING.txt"}
conduct_files == {"CODE_OF_CONDUCT.md", "code_of_conduct.md", ".github/CODE_OF_CONDUCT.md"}

\* _check_contribution_files with `score = 3` for `score += 3`.
_check_contribution_files_Assign(items) ==
    LET hits == SelectSeq(items,
                    LAMBDA it : ItemName(it) \in contributing_files \cup conduct_files)
    IN [score |-> IF hits = <<>> THEN 0 ELSE 3,
        good |-> [i \in DOMAIN hits |-> <<"found: ", ItemName(hits[i])>>],
        issues |-> <<>>]

_check_contribution_files(items) ==
    LET hits == SelectSeq(items,
                    LAMBDA it : ItemName(it) \in contributing_files \cup conduct_files)
        label(n) == IF n \in contributing_files THEN "Contributing guidelines found: "
                    ELSE "Code of conduct found: "
        found_contrib == \E i \in DOMAIN hits :
                            PartContains(Upper(ItemName(hits[i])), "CONTRIBUTING")
        found_conduct == \E i \in DOMAIN hits :
                            /\ ~PartContains(Upper(ItemName(hits[i])), "CONTRIBUTING")
                            /\ PartContains(Upper(ItemName(hits[i])), "CODE_OF_CONDUCT")
    IN [score |-> 3 * Len(hits),
        good |-> [i \in DOMAIN hits |-> <<label(ItemName(hits[i])), ItemName(hits[i])>>],
        issues |-> (IF found_contrib THEN <<>>
                    ELSE << <<"Missing contributing guidelines (CONTRIBUTING.md)">> >>)
                   \o (IF found_conduct THEN <<>>
                       ELSE << <<"Missing code of conduct (CODE_OF_CONDUCT.md)">> >>)]

ci_files == {".github/workflows/", ".travis.yml", ".circleci/", "Jenkinsfile",
             ".gitlab-ci.yml", "azure-pipelines.yml", ".github/workflows/ci.yml",
             ".github/workflows/test.yml"}

ci_label(n) ==
    CASE n = ".github/workflows/" -> "GitHub Actions workflows found: "
      [] n = ".travis.yml" -> "Travis CI found: "
      [] n = ".circleci/" -> "CircleCI found: "
      [] n = "Jenkinsfile" -> "Jenkins found: "
      [] n = ".gitlab-ci.yml" -> "GitLab CI found: "
      [] n = "azure-pipelines.yml" -> "Azure Pipelines found: "
      [] n = ".github/workflows/ci.yml" -> "GitHub Actions CI found: "
      [] OTHER -> "GitHub Actions Tests found: "

_check_ci_cd(items) ==
    LET isCi(it) == ItemName(it) \in ci_files
        isGithubDir(it) == ~isCi(it) /\ ItemType(it) = "dir" /\ ItemName(it) = ".github"
        points(it) == IF isCi(it) THEN 8 ELSE IF isGithubDir(it) THEN 2 ELSE 0
        line(it) == IF isCi(it) THEN << <<ci_label(ItemName(it)), ItemName(it)>> >>
                    ELSE IF isGithubDir(it) THEN << <<".github directory found">> >>
                    ELSE <<>>
        found_ci == \E i \in DOMAIN items : isCi(items[i])
    IN [score |-> SeqSum([i \in DOMAIN items |-> points(items[i])]),
        good |-> FlatMap(items, line),
        issues |-> IF found_ci THEN <<>> ELSE << <<"No CI/CD configuration found">> >>]

dependency_files == {"package.json", "requirements.txt", "Pipfile", "poetry.lock",
                     "Gemfile", "pom.xml", "build.gradle", "Cargo.toml", "go.mod",
                     "composer.json"}

dependency_label(n) ==
    CASE n = "package.json" -> "Node.js dependencies found: "
      [] n = "requirements.txt" -> "Python dependencies found: "
      [] n = "Pipfile" -> "Python Pipenv dependencies found: "
      [] n = "poetry.lock" -> "Python Poetry dependencies found: "
      [] n = "Gemfile" -> "Ruby dependencies found: "
      [] n = "pom.xml" -> "Maven dependencies found: "
      [] n = "build.gradle" -> "Gradle dependencies found: "
      [] n = "Cargo.toml" -> "Rust dependencies found: "
      [] n = "go.mod" -> "Go dependencies found: "
      [] OTHER -> "PHP dependencies found: "

\* The lock file looked for beside a manifest, "" when there is none.
lock_file(n) ==
    CASE n = "package.json" -> "package-lock.json"
      [] n = "Pipfile" -> "Pipfile.lock"
      [] n = "Gemfile" -> "Gemfile.lock"
      [] n = "composer.json" -> "composer.lock"
      [] OTHER -> ""

_check_dependencies(items) ==
    LET isDep(it) == ItemName(it) \in dependency_files
        lock_found(it) == \E j \in DOMAIN items :
                             Get(items[j].o, "name") = JStr(lock_file(ItemName(it)))
        points(it) == IF ~isDep(it) THEN 0
                      ELSE IF lock_file(ItemName(it)) # "" /\ lock_found(it) THEN 7
                      ELSE 5
        line(it) == IF ~isDep(it) THEN <<>>
                    ELSE << <<dependency_label(ItemName(it)), ItemName(it)>> >>
                         \o (IF lock_file(ItemName(it)) # "" /\ lock_found(it)
                             THEN << <<"Lock file found: ", lock_file(ItemName(it))>> >>
                             ELSE <<>>)
        miss(it) == IF isDep(it) /\ lock_file(ItemName(it)) # "" /\ ~lock_found(it)
                    THEN << <<"Missing lock file: ", lock_file(ItemName(it))>> >>
                    ELSE <<>>
        found_deps == \E i \in DOMAIN items : isDep(items[i])
    IN [score |-> SeqSum([i \in DOMAIN items |-> points(items[i])]),
        good |-> FlatMap(items, line),
        issues |-> FlatMap(items, miss)
                   \o (IF found_deps THEN <<>>
                       ELSE << <<"No dependency files detected">> >>)]

_check_repository_settings(repo_data) ==
    LET has_issues == Truthy(Get(repo_data, "has_issues"))
        has_wiki == Truthy(Get(repo_data, "has_wiki"))
        has_projects == Truthy(Get(repo_data, "has_projects"))
        topics == GetD(repo_data, "topics", JList(<<>>))
        archived == Truthy(Get(repo_data, "archived"))
        fork == Truthy(Get(repo_data, "fork"))
    IN [score |-> (IF has_issues THEN 3 ELSE 0) + (IF has_wiki THEN 2 ELSE 0)
                  + (IF has_projects THEN 2 ELSE 0) + (IF Truthy(topics) THEN 5 ELSE 0),
        good |-> (IF has_issues THEN << <<"Issues are enabled">> >> ELSE <<>>)
                 \o (IF has_wiki THEN << <<"Wiki is enabled">> >> ELSE <<>>)
                 \o (IF has_projects THEN << <<"Projects are enabled">> >> ELSE <<>>)
                 \o (IF Truthy(topics)
                     THEN << <<"Repository has topics: ">>
                             \o SubSeq(topics.l, 1, Min(3, Len(topics.l)))
                             \o (IF Len(topics.l) > 3 THEN <<"...">> ELSE <<>>) >>
                     ELSE <<>>),
        issues |-> (IF has_issues THEN <<>> ELSE << <<"Issues are disabled">> >>)
                   \o (IF Truthy(topics) THEN <<>>
                       ELSE << <<"No topics set for repository">> >>)
                   \o (IF archived THEN << <<"Repository is archived">> >> ELSE <<>>)
                   \o (IF fork THEN << <<"Repository is a fork">> >> ELSE <<>>),
        topics |-> topics]

\* HealthStatus with the first threshold exclusive.
HealthStatus_Exclusive(health_percentage) ==
    IF health_percentage > 90 THEN "Excellent"
    ELSE IF health_percentage >= 70 THEN "Good"
    ELSE IF health_percentage >= 50 THEN "Needs Improvement"
    ELSE "Poor"

\* Lines 91-99: the status label of a health percentage.
HealthStatus(health_percentage) ==
    IF health_percentage >= 90 THEN "Excellent"
    ELSE IF health_percentage >= 70 THEN "Good"
    ELSE IF health_percentage >= 50 THEN "Needs Improvement"
    ELSE "Poor"

max_score == 100

\* HealthPercentage without the clamp.
HealthPercentage_NoClamp(health_score) == (health_score * 100) \div max_score

\* Line 91: min(100, (health_score / max_score) * 100).  health_score is an
\* integer and max_score is 100, so the quotient times 100 is health_score.
HealthPercentage(health_score) == Min(100, (health_score * 100) \div max_score)

\* Lines 101-112.
HealthRecommendations(health_percentage, good_practices) ==
    LET none(needle) == ~\E i \in DOMAIN good_practices :
                            Contains(good_practices[i], needle)
        noSecurity == ~\E i \in DOMAIN good_practices :
                          \E k \in DOMAIN good_practices[i] :
                              LowerContainsSecurity(good_practices[i][k])
    IN (IF health_percentage < 90
        THEN <<"Address the issues listed to improve health">> ELSE <<>>)
       \o (IF none("README")
           THEN <<"Add a comprehensive README with setup instructions">> ELSE <<>>)
       \o (IF none("License")
           THEN <<"Add a LICENSE file to clarify usage rights">> ELSE <<>>)
       \o (IF noSecurity THEN <<"Add security policies (SECURITY.md)">> ELSE <<>>)
       \o (IF none("CI/CD")
           THEN <<"Set up CI/CD workflows and automated testing">> ELSE <<>>)

\* Lines 43-56: the points for recent activity, 0 when updated_at is unset.
ActivityPoints(updated_at, at) ==
    IF ~Truthy(updated_at) THEN 0
    ELSE LET days_since_update == DaysBetween(at, fromisoformat(updated_at).v)
         IN IF days_since_update <= 30 THEN 10
            ELSE IF days_since_update <= 90 THEN 5 ELSE 0

\* Lines 30-89: health_score, the sum of the points of every check.
HealthScore(rd, items, at) ==
    (IF Truthy(Get(rd, "description")) THEN 10 ELSE 0)
    + ActivityPoints(Get(rd, "updated_at"), at)
    + (IF _check_readme(items).exists THEN 15 ELSE 0)
    + (IF _check_license(items, rd).exists THEN 10 ELSE 0)
    + _check_security_files(items).score
    + _check_contribution_files(items).score
    + _check_ci_cd(items).score
    + _check_dependencies(items).score
    + _check_repository_settings(rd).score

\* Lines 30-133 of check_repository_health: the report computed from the two
\* decoded bodies, or the exception the computation raises.
HealthReport(owner, repo, repo_data, contents, at) ==
    IF repo_data.t # "obj" THEN Raise("AttributeError")
    ELSE
    LET rd == repo_data.o
        description == Get(rd, "description")
        updated_at == Get(rd, "updated_at")
        last_update == fromisoformat(updated_at)
        listing == ListingItems(contents)
    IN IF Truthy(updated_at) /\ ~last_update.ok THEN Raise(last_update.exc)
       ELSE IF ~listing.ok THEN Raise(listing.exc)
       ELSE
       LET items == listing.v
           days_since_update == IF Truthy(updated_at)
                                THEN JNum(DaysBetween(at, last_update.v)) ELSE JNull
           recent == ActivityPoints(updated_at, at) = 10
           fairly == ActivityPoints(updated_at, at) = 5
           readme_check == _check_readme(items)
           license_check == _check_license(items, rd)
           security_check == _check_security_files(items)
           contrib_check == _check_contribution_files(items)
           ci_check == _check_ci_cd(items)
           deps_check == _check_dependencies(items)
           settings_check == _check_repository_settings(rd)
           health_score == HealthScore(rd, items, at)
           good_practices ==
               (IF Truthy(description) THEN << <<"Repository has a description">> >>
                ELSE <<>>)
               \o (IF recent THEN << <<"Recently updated (within 30 days)">> >>
                   ELSE IF fairly THEN << <<"Updated within 90 days">> >> ELSE <<>>)
               \o (IF readme_check.exists
                   THEN << <<"README found: ", readme_check.file>> >> ELSE <<>>)
               \o (IF license_check.exists
                   THEN << <<"License found: ", license_check.license>> >> ELSE <<>>)
               \o security_check.good \o contrib_check.good \o ci_check.good
               \o deps_check.good \o settings_check.good
           issues ==
               (IF Truthy(description) THEN <<>>
                ELSE << <<"Missing repository description">> >>)
               \o (IF Truthy(updated_at) /\ ~recent /\ ~fairly
                   THEN << <<"Not updated in days">> >> ELSE <<>>)
               \o (IF readme_check.exists THEN <<>> ELSE << <<"Missing README file">> >>)
               \o (IF license_check.exists THEN <<>> ELSE << <<"Missing LICENSE file">> >>)
               \o security_check.issues \o contrib_check.issues \o ci_check.issues
               \o deps_check.issues \o settings_check.issues
           health_percentage == HealthPercentage(health_score)
       IN Ret([owner |-> owner,
               repo |-> repo,
               health_score |-> health_percentage,
               status |-> HealthStatus(health_percentage),
               description |-> description,
               days_since_update |-> days_since_update,
               good_practices |-> good_practices,
               issues |-> issues,
               recommendations |->
                   HealthRecommendations(health_percentage, good_practices),
               details |-> [readme |-> readme_check,
                            license |-> license_check,
                            ci_cd |-> ci_check,
                            security |-> security_check,
                            contribution |-> contrib_check,
                            dependencies |-> deps_check,
                            settings |-> settings_check]])

-----------------------------------------------------------------------------
(* src/src/repo_management/health.py: the dependency scan *)

\* The content of a fetched file: `json` is what json.loads makes of it and
\* `lines` what splitlines() makes of it.
security_packages == <<"helmet", "cors", "express-rate-limit", "bcrypt", "jsonwebtoken">>
test_packages == <<"jest", "mocha", "chai", "cypress", "testing-library">>

\* a in b, for two names of test_packages: none is part of another.
NameContains(b, a) == a = b

\* _analyze_package_json_json counting the runtime section for both counts.
_analyze_package_json_json_OneSection(content) ==
    IF ~content.json.ok THEN Ret([error |-> "Invalid JSON in package.json"])
    ELSE IF content.json.v.t # "obj" THEN Raise("AttributeError")
    ELSE
    LET data == content.json.v.o
        dependencies == GetD(data, "dependencies", JObj(<<>>))
    IN IF dependencies.t # "obj" THEN Raise("TypeError")
       ELSE Ret(
        [type |-> "node",
         dependencies_count |-> Cardinality(DOMAIN dependencies.o),
         dev_dependencies_count |-> Cardinality(DOMAIN dependencies.o),
         security_packages |->
             SelectSeq(security_packages, LAMBDA pkg : pkg \in DOMAIN dependencies.o),
         testing_frameworks |-> test_packages])

\* Lines 437-458.
_analyze_package_json_json(content) ==
    IF ~content.json.ok THEN Ret([error |-> "Invalid JSON in package.json"])
    ELSE IF content.json.v.t # "obj" THEN Raise("AttributeError")
    ELSE
    LET data == content.json.v.o
        dependencies == GetD(data, "dependencies", JObj(<<>>))
        dev_dependencies == GetD(data, "devDependencies", JObj(<<>>))
    IN IF dependencies.t # "obj" \/ dev_dependencies.t # "obj" THEN Raise("TypeError")
       ELSE Ret(
        [type |-> "node",
         dependencies_count |-> Cardinality(DOMAIN dependencies.o),
         dev_dependencies_count |-> Cardinality(DOMAIN dev_dependencies.o),
         security_packages |->
             SelectSeq(security_packages, LAMBDA pkg : pkg \in DOMAIN dependencies.o),
         testing_frameworks |->
             SelectSeq(test_packages,
                 LAMBDA pkg : \/ pkg \in DOMAIN dev_dependencies.o
                              \/ \E i \in DOMAIN test_packages :
                                    NameContains(pkg, test_packages[i]))])

\* The lines of the model's requirements.txt, Pipfile and Gemfile texts.
LineIsBlank(line) == line \in {"", "  "}
LineStartsWithHash(line) == line \in {"# pinned", "# gems"}
LineStrip(line) == IF line = "  pytest" THEN "pytest" ELSE line
LineHasPin(line) == line \in {"requests==2.31.0", "cryptography==41.0.0"}
LineMentions(line, pkgs) ==
    \/ line = "cryptography==41.0.0" /\ "cryptography" \in pkgs
    \/ line = "pytest" /\ "pytest" \in pkgs
    \/ line = "gem 'rails'" /\ "rails" \in pkgs
LineIsGem(line) == line \in {"gem 'rails'", "gem 'rake'"}

\* [line.strip() for line in content.splitlines()
\*  if line.strip() and not line.startswith('#')]
StrippedLines(content) ==
    LET kept == SelectSeq(content.lines,
                    LAMBDA l : ~LineIsBlank(l) /\ ~LineStartsWithHash(l))
    IN [i \in DOMAIN kept |-> LineStrip(kept[i])]

\* Lines 461-476.
_analyze_requirements_txt_json(content) ==
    LET lines == StrippedLines(content)
    IN [type |-> "python",
        total_dependencies |-> Len(lines),
        pinned_versions |-> Len(SelectSeq(lines, LineHasPin)),
        security_packages |->
            SelectSeq(lines, LAMBDA l : LineMentions(l,
                {"cryptography", "pycryptodome", "bcrypt", "passlib"})),
        testing_frameworks |->
            SelectSeq(lines, LAMBDA l : LineMentions(l,
                {"pytest", "unittest", "nose", "tox"}))]

\* Lines 479-484.
_analyze_pipfile_json(content) ==
    [type |-> "pipfile",
     contains_packages_section |-> \E i \in DOMAIN content.lines :
                                      content.lines[i] = "[packages]",
     contains_dev_packages_section |-> \E i \in DOMAIN content.lines :
                                          content.lines[i] = "[dev-packages]"]

\* Lines 487-497.
_analyze_gemfile_json(content) ==
    LET gem_lines == SelectSeq(StrippedLines(content), LineIsGem)
    IN [type |-> "ruby",
        total_gems |-> Len(gem_lines),
        rails_related |->
            SelectSeq(gem_lines, LAMBDA l : LineMentions(l,
                {"rails", "devise", "sidekiq", "puma"}))]

\* Lines 424-434.
_analyze_dependency_file_json(filename, content) ==
    CASE filename = "package.json" -> _analyze_package_json_json(content)
      [] filename = "requirements.txt" -> Ret(_analyze_requirements_txt_json(content))
      [] filename = "Pipfile" -> Ret(_analyze_pipfile_json(content))
      [] filename = "Gemfile" -> Ret(_analyze_gemfile_json(content))
      [] OTHER -> Ret([note |-> <<"No analysis implemented for ", filename>>])

known_files == {"package.json", "requirements.txt", "Pipfile", "Gemfile", "pom.xml",
                "build.gradle", "Cargo.toml", "go.mod", "composer.json"}

\* Lines 378-387: the located manifests, in listing order.
DependencyFiles(contents) ==
    SelectSeq(contents, LAMBDA item : Get(item.o, "name").t = "str"
                                      /\ Get(item.o, "name").s \in known_files)

\* Every located manifest fetched, with a download_url or without.
FetchedDependencyFiles_All(contents) == DependencyFiles(contents)
\* Lines 398-402: the manifests whose content is fetched.
FetchedDependencyFiles(contents) ==
    SelectSeq(DependencyFiles(contents), LAMBDA f : Truthy(Get(f.o, "download_url")))

-----------------------------------------------------------------------------
(* Payloads of the health check *)

\* A top-level contents listing, in the order the API lists it.
HealthFiles == <<".github", ".travis.yml", "CODE_OF_CONDUCT.md", "CONTRIBUTING.md",
                 "Jenkinsfile", "LICENSE", "README.md", "SECURITY.md",
                 "package-lock.json", "package.json", "requirements.txt",
                 "security.md">>

Entry(name) ==
    JObj([name |-> JStr(name),
          type |-> JStr(IF name = ".github" THEN "dir" ELSE "file"),
          download_url |-> JStr("https://raw.githubusercontent.com/")])

\* The listing that holds the files of HealthFiles at the positions in S.
Listing(S) ==
    LET all == [i \in DOMAIN HealthFiles |-> Entry(HealthFiles[i])]
        pick[i \in 0..Len(all)] ==
            IF i = 0 THEN <<>>
            ELSE IF i \in S THEN Append(pick[i - 1], all[i]) ELSE pick[i - 1]
    IN JList(pick[Len(all)])

HealthListings == {Listing(S) : S \in SUBSET DOMAIN HealthFiles}

\* Repository metadata as GET /repos/{owner}/{repo} answers it.
RepoData(description, age, license, has_issues, has_wiki, has_projects, topics) ==
    JObj([description |-> description,
          updated_at |-> JDate(0 - age * TicksPerDay),
          license |-> license,
          has_issues |-> JBool(has_issues),
          has_wiki |-> JBool(has_wiki),
          has_projects |-> JBool(has_projects),
          topics |-> JList(topics),
          archived |-> JBool(FALSE),
          fork |-> JBool(FALSE),
          default_branch |-> JStr("main")])

HealthRepoDatas ==
    {RepoData(d, a, l, i, w, p, t) :
        d \in {JNull, JStr("An MCP server")},
        a \in {10, 60, 200},
        l \in {JNull, JObj([name |-> JStr("MIT License")])},
        i \in BOOLEAN, w \in BOOLEAN, p \in BOOLEAN,
        t \in {<<>>, <<"mcp">>}}

\* The listing with one file of each kind the health check looks for.
OneOfEachListing ==
    Listing({i \in DOMAIN HealthFiles :
                HealthFiles[i] \in {".travis.yml", "CODE_OF_CONDUCT.md", "CONTRIBUTING.md",
                                    "LICENSE", "README.md", "SECURITY.md",
                                    "package-lock.json", "package.json"}})

ListingPresets ==
    {Listing({}), Listing(DOMAIN HealthFiles), OneOfEachListing,
     Listing({i \in DOMAIN HealthFiles : HealthFiles[i] = "README.md"})}

RepoDataPresets ==
    {RepoData(JStr("An MCP server"), 10, JObj([name |-> JStr("MIT License")]),
              TRUE, TRUE, TRUE, <<"mcp">>),
     RepoData(JStr("An MCP server"), 60, JNull, TRUE, TRUE, TRUE, <<"mcp">>),
     RepoData(JNull, 10, JNull, TRUE, TRUE, TRUE, <<"mcp">>),
     RepoData(JNull, 200, JNull, FALSE, FALSE, FALSE, <<>>)}

\* The score is a sum of points read from the metadata and points read from
\* the listing (only the license reads both): every metadata with the preset
\* listings, and every listing with the preset metadata.
HealthInputs ==
    [repo_data : HealthRepoDatas, contents : ListingPresets]
    \cup [repo_data : RepoDataPresets, contents : HealthListings]

-----------------------------------------------------------------------------
(* The aggregator variables of a specification that applies one function *)

NotInvoked ==
    /\ GITHUB_TOKEN = TRUE
    /\ op = "none"
    /\ pc = "idle"
    /\ args = [days |-> 0]
    /\ fetched = <<>>
    /\ requests = <<>>
    /\ result = [pending |-> TRUE]
    /\ escaped = FALSE

NotApplied == [applied |-> FALSE]
Applied(r) == [applied |-> TRUE, r |-> r]

-----------------------------------------------------------------------------
(* SpecHealth: the health report of every metadata and listing *)

InitHealth ==
    /\ NotInvoked
    /\ now = 0
    /\ inp \in HealthInputs
    /\ out = NotApplied

CheckHealth ==
    /\ ~out.applied
    /\ out' = Applied(HealthReport("octo", "repo", inp.repo_data, inp.contents, now))
    /\ UNCHANGED <<aggVars, now, inp>>

NextHealth == CheckHealth

SpecHealth == InitHealth /\ [][NextHealth]_vars

-----------------------------------------------------------------------------
(* SpecWindow: the windowed counts of pull requests, issues and events *)

\* Sequences of at most n elements of S.
SeqsUpTo(S, n) == UNION {[1..k -> S] : k \in 0..n}

\* The instants at, and one tick after, each cutoff a window of 0..MaxDays
\* days has at instant 0.
WindowInstants == {k - d * TicksPerDay : d \in 0..MaxDays, k \in {0, 1}}

\* An item of a listing: created_at missing, unparseable or an ISO-8601
\* text, and for an issue the pull_request reference it may carry.
WindowItems ==
    {JObj([state |-> JStr("open"), type |-> JStr("PushEvent")]),
     JObj([state |-> JStr("open"), type |-> JStr("PushEvent"),
           created_at |-> JStr("not a date")])}
    \cup {JObj([state |-> JStr("open"), type |-> JStr("PushEvent"),
                created_at |-> JDate(t)]) : t \in WindowInstants}
    \cup {JObj([state |-> JStr("closed"), type |-> JStr("PushEvent"),
                created_at |-> JDate(t),
                pull_request |-> JObj([url |-> JStr("https://api.github.com/")])]) :
             t \in {0, 1 - TicksPerDay}}

InitWindow ==
    /\ NotInvoked
    /\ now = 0
    /\ inp \in [items : SeqsUpTo(WindowItems, MaxItems), days : 0..MaxDays]
    /\ out = NotApplied

AnalyzePrs ==
    /\ ~out.applied
    /\ out' = [applied |-> TRUE, fn |-> "_analyze_prs",
               r |-> _analyze_prs(inp.items, inp.days, now)]
    /\ UNCHANGED <<aggVars, now, inp>>

AnalyzeIssues ==
    /\ ~out.applied
    /\ out' = [applied |-> TRUE, fn |-> "_analyze_issues",
               r |-> _analyze_issues(inp.items, inp.days, now)]
    /\ UNCHANGED <<aggVars, now, inp>>

AnalyzeUserActivity ==
    /\ ~out.applied
    /\ out' = [applied |-> TRUE, fn |-> "_analyze_user_activity",
               r |-> _analyze_user_activity(inp.items, inp.days, now, now)]
    /\ UNCHANGED <<aggVars, now, inp>>

NextWindow == AnalyzePrs \/ AnalyzeIssues \/ AnalyzeUserActivity

SpecWindow == InitWindow /\ [][NextWindow]_vars

\* The items the function looks at (an issue listing drops the entries that
\* carry a pull_request reference) and the count it reports for the window.
WindowCandidates ==
    IF out.fn = "_analyze_issues"
    THEN SelectSeq(inp.items, LAMBDA x : "pull_request" \notin DOMAIN x.o)
    ELSE inp.items

WindowCount ==
    CASE out.fn = "_analyze_prs" -> out.r.v.recent_prs
      [] out.fn = "_analyze_issues" -> out.r.v.recent_issues
      [] OTHER -> out.r.v.total_events

\* The items whose timestamp is an ISO-8601 text strictly later than
\* now - days.
InWindow(x) ==
    /\ "created_at" \in DOMAIN x.o
    /\ "at" \in DOMAIN x.o.created_at
    /\ x.o.created_at.at > now - inp.days * TicksPerDay

\* C6: the windowed subset is exactly the items whose timestamp parses and is
\* strictly later than now - days; an item whose timestamp is missing or
\* unparseable is left out, and the report is still produced.
C6_WindowedSubset ==
    out.applied /\ WindowCandidates # <<>> =>
        /\ out.r.ok
        /\ WindowCount = Len(SelectSeq(WindowCandidates, InWindow))

\* The entries of the listing that carry no pull_request reference, and
\* the count the issue analysis reports under a key (0 when it reports none).
TrueIssues == SelectSeq(inp.items, LAMBDA x : "pull_request" \notin DOMAIN x.o)
IssueStateNames == {"open", "closed", "unknown"}
IssueCount(key) == IF out.r.ok THEN GetD(out.r.v, key, 0) ELSE 0
IssueStates == IF out.r.ok THEN GetD(out.r.v, "issue_states", <<>>) ELSE <<>>

\* C17: for every issues list, the empty one included, the issue analysis
\* leaves out the entries that carry a pull_request reference: total_issues is
\* the number of entries without one, issue_states counts those entries by
\* state and its counts sum to total_issues, and recent_issues counts those of
\* them created inside the window, so recent_issues <= total_issues.
C17_IssuesExcludePullRequests ==
    out.applied /\ out.fn = "_analyze_issues" =>
        /\ out.r.ok
        /\ IssueCount("total_issues") = Len(TrueIssues)
        /\ DOMAIN IssueStates \subseteq IssueStateNames
        /\ \A k \in DOMAIN IssueStates :
              IssueStates[k] = Len(SelectSeq(TrueIssues, LAMBDA x : x.o.state.s = k))
        /\ GetD(IssueStates, "open", 0) + GetD(IssueStates, "closed", 0)
              + GetD(IssueStates, "unknown", 0) = IssueCount("total_issues")
        /\ IssueCount("recent_issues") = Len(SelectSeq(TrueIssues, InWindow))
        /\ IssueCount("recent_issues") <= IssueCount("total_issues")

-----------------------------------------------------------------------------
(* SpecStreak: the streaks of every day -> count mapping, at every time of *)
(* the day of the call and under every offset of the local clock           *)

\* The mappings hold days from StreakSpan days before the day of the call
\* (day 0) to the day after it.
StreakSpan == 5
StreakDays == (0 - StreakSpan)..1

\* The keys of the mapping are days of the UTC calendar (line 249 formats
\* instants parsed with their +00:00 offset), while datetime.now() of lines
\* 458-460 is the wall clock of the server's time zone: UTC plus an offset of
\* up to MaxOffset ticks either way.
MaxOffset == 1
UtcOffsets == (0 - MaxOffset)..MaxOffset

InitStreak ==
    /\ NotInvoked
    /\ now \in 0..(TicksPerDay - 1)
    /\ inp \in {[daily_activity |-> [d \in S |-> 1 + (d % 2)], utcoffset |-> z] :
                    S \in SUBSET StreakDays, z \in UtcOffsets}
    /\ out = NotApplied

CalculateStreak ==
    /\ ~out.applied
    /\ out' = Applied(_calculate_activity_streak(inp.daily_activity,
                                                 now + inp.utcoffset))
    /\ UNCHANGED <<aggVars, now, inp>>

NextStreak == CalculateStreak

SpecStreak == InitStreak /\ [][NextStreak]_vars

ActiveDays == DOMAIN inp.daily_activity

\* The length of the longest run of consecutive days in S, 0 for no day.
LongestRun(S) ==
    LET runs == {p[2] - p[1] + 1 :
                    p \in {q \in S \X S : q[1] <= q[2] /\ q[1]..q[2] \subseteq S}}
    IN IF S = {} THEN 0 ELSE CHOOSE n \in runs : \A m \in runs : m <= n

\* The length of the run of consecutive days of S that ends with its last day.
TrailingRun(S) ==
    LET last == CHOOSE d \in S : \A e \in S : e <= d
        starts == {a \in S : a..last \subseteq S}
    IN last - (CHOOSE a \in starts : \A b \in starts : a <= b) + 1

\* C11: longest_streak is the length of the longest run of consecutive days
\* of the mapping: the number of days when there is no gap, the longer of the
\* two runs when there is one gap; both streaks are 0 for the empty mapping.
C11_LongestStreak ==
    out.applied =>
        /\ out.r.longest_streak = LongestRun(ActiveDays)
        /\ ActiveDays = {} => out.r.longest_streak = 0 /\ out.r.current_streak = 0
        /\ \A a, b \in StreakDays :
              ActiveDays = a..b /\ a <= b =>
                  out.r.longest_streak = Cardinality(ActiveDays)
        /\ \A a, b, c, d \in StreakDays :
              a <= b /\ b + 2 <= c /\ c <= d /\ ActiveDays = (a..b) \cup (c..d) =>
                  out.r.longest_streak = IF b - a >= d - c THEN b - a + 1 ELSE d - c + 1

\* Three days in a row, a gap, then the day of the call: the longest streak
\* is 3.
C11_Witness ==
    /\ out.applied
    /\ ActiveDays = {0 - 4, 0 - 3, 0 - 2, 0}
    /\ out.r.longest_streak = 3

\* C12: current_streak is the trailing run when the most recent active day
\* is the day of the call or the day before, and 0 when it is two or more
\* days before, at every time of the day.  The days of the mapping and the
\* day of the call are days of one calendar, UTC.
C12_CurrentStreak ==
    out.applied /\ ActiveDays # {} =>
        LET last == CHOOSE d \in ActiveDays : \A e \in ActiveDays : e <= d
            today == DayOf(now)
        IN /\ last \in {today, today - 1} =>
                  out.r.current_streak = TrailingRun(ActiveDays)
           /\ last <= today - 2 => out.r.current_streak = 0

-----------------------------------------------------------------------------
(* SpecScore: the activity score of every event list and window length *)

\* Events of two types, and of no type, on the day of the call and on the
\* day before; every created_at parses, as in the recent_events of line 277.
ScoreEvents ==
    {JObj([type |-> JStr(k), created_at |-> JDate(t)]) :
        k \in {"PushEvent", "IssuesEvent"}, t \in {0, 0 - TicksPerDay}}
    \cup {JObj([created_at |-> JDate(0)])}

InitScore ==
    /\ NotInvoked
    /\ now = 0
    /\ inp \in [events : SeqsUpTo(ScoreEvents, MaxItems + 1),
                days : (0 - MaxDays)..MaxDays]
    /\ out = NotApplied

CalculateActivityScore ==
    /\ ~out.applied
    /\ out' = Applied(_calculate_activity_score(inp.events, inp.days))
    /\ UNCHANGED <<aggVars, now, inp>>

NextScore == CalculateActivityScore

SpecScore == InitScore /\ [][NextScore]_vars

\* floor(min(10 n / days, 50) + min(5 t, 30) + min(20 a / days, 20)) for the
\* n events, t types and a active days of the input.
ScoreFormula ==
    LET n == Len(inp.events)
        t == Cardinality({GetD(inp.events[i].o, "type", JStr("")) :
                             i \in DOMAIN inp.events})
        a == Cardinality({DayOf(inp.events[i].o.created_at.at) : i \in DOMAIN inp.events})
        total == RAdd(RAdd(RMin(Rat(10 * n, inp.days), Rat(50, 1)),
                           Rat(Min(5 * t, 30), 1)),
                      RMin(Rat(20 * a, inp.days), Rat(20, 1)))
    IN total.n \div total.d

\* C13: the activity score is an integer in [0, 100], 0 for no event or a
\* window of 0 days, and otherwise min(floor(min(10 n / days, 50)
\* + min(5 t, 30) + min(20 a / days, 20)), 100).
C13_ActivityScore ==
    out.applied =>
        /\ out.r \in 0..100
        /\ inp.events = <<>> \/ inp.days = 0 => out.r = 0
        /\ inp.events # <<>> /\ inp.days # 0 => out.r = Min(ScoreFormula, 100)

-----------------------------------------------------------------------------
(* SpecCollab: the collaboration score of every triple of counts *)

\* The counts go past the cap of each term: 30 / 5, 40 / 3 and 30 / 2.
MaxForks == 7
MaxPrEvents == 14
MaxIssueEvents == 16

\* k events of one type.
EventsOf(kind, k) == [i \in 1..k |-> JObj([type |-> JStr(kind)])]

InitCollab ==
    /\ NotInvoked
    /\ now = 0
    /\ inp \in {[forks |-> f,
                  pr_events |-> EventsOf("PullRequestEvent", p),
                  issue_events |-> EventsOf("IssuesEvent", i)] :
                    f \in 0..MaxForks, p \in 0..MaxPrEvents, i \in 0..MaxIssueEvents}
    /\ out = NotApplied

CalculateCollaborationScore ==
    /\ ~out.applied
    /\ out' = Applied(_calculate_collaboration_score(inp.forks, inp.pr_events,
                                                     inp.issue_events))
    /\ UNCHANGED <<aggVars, now, inp>>

NextCollab == CalculateCollaborationScore

SpecCollab == InitCollab /\ [][NextCollab]_vars

\* C14: the collaboration score is min(5 forks, 30) + min(3 prEvents, 40)
\* + min(2 issueEvents, 30), within [0, 100], and 0 for three counts of 0.
C14_CollaborationScore ==
    out.applied =>
        LET f == inp.forks
            p == Len(inp.pr_events)
            i == Len(inp.issue_events)
            capped(x, cap) == IF x > cap THEN cap ELSE x
        IN /\ out.r = capped(5 * f, 30) + capped(3 * p, 40) + capped(2 * i, 30)
           /\ out.r \in 0..100
           /\ f = 0 /\ p = 0 /\ i = 0 => out.r = 0

\* Seven forks count for 30 points, two PR events for 6, one issue event
\* for 2.
C14_Witness ==
    /\ out.applied
    /\ inp.forks = 7 /\ Len(inp.pr_events) = 2 /\ Len(inp.issue_events) = 1
    /\ out.r = 38

-----------------------------------------------------------------------------
(* SpecComplexity: the complexity score of every file and commit analysis *)

\* The counts on both sides of each threshold of lines 331-362, and the
\* counts of the scenario of 25 files, 800 + 300 changes and 12 commits.
FileCounts == {0, 10, 11, 20, 21, 25}
AdditionCounts == {0, 200, 201, 500, 501, 700, 701, 800, 1000, 1001}
CommitCounts == {0, 10, 11, 12}
LanguageNames == <<"Python", "JavaScript", "Go", "Rust">>

\* The analysis _analyze_file_changes returns for files of k languages.
FileAnalysis(files, additions, deletions, k, large) ==
    IF files = 0 THEN [total_files |-> 0, changes |-> <<>>]
    ELSE [total_files |-> files,
          total_additions |-> additions,
          total_deletions |-> deletions,
          languages |-> [l \in {LanguageNames[i] : i \in 1..k} |-> 1],
          large_files |-> IF large THEN <<[filename |-> "app.py", changes |-> 120,
                                           status |-> JStr("modified")]>>
                          ELSE <<>>]

InitComplexity ==
    /\ NotInvoked
    /\ now = 0
    /\ inp \in {[file_analysis |-> FileAnalysis(f, a, d, k, l),
                  commit_analysis |-> [total_commits |-> c]] :
                    f \in FileCounts, a \in AdditionCounts, d \in {0, 300},
                    k \in {0, 3, 4}, l \in BOOLEAN, c \in CommitCounts}
    /\ out = NotApplied

CalculateComplexityScore ==
    /\ ~out.applied
    /\ out' = Applied(_calculate_complexity_score(inp.file_analysis,
                                                  inp.commit_analysis))
    /\ UNCHANGED <<aggVars, now, inp>>

NextComplexity == CalculateComplexityScore

SpecComplexity == InitComplexity /\ [][NextComplexity]_vars

\* The sum of the five terms for the counts of the input.
ComplexitySum ==
    LET fa == inp.file_analysis
        files == fa.total_files
        changes == IF files = 0 THEN 0 ELSE fa.total_additions + fa.total_deletions
        langs == IF files = 0 THEN 0 ELSE Cardinality(DOMAIN fa.languages)
        large == files # 0 /\ fa.large_files # <<>>
    IN (IF files > 20 THEN 30 ELSE IF files > 10 THEN 15 ELSE 0)
       + (IF changes > 1000 THEN 40 ELSE IF changes > 500 THEN 20 ELSE 0)
       + (IF langs > 3 THEN 15 ELSE 0)
       + (IF large THEN 15 ELSE 0)
       + (IF inp.commit_analysis.total_commits > 10 THEN 10 ELSE 0)

\* The score is min(100, S) and the level follows the reported score.
ComplexityRule ==
    /\ out.r.score = Min(ComplexitySum, 100)
    /\ out.r.level = IF out.r.score > 70 THEN "High"
                     ELSE IF out.r.score > 30 THEN "Medium" ELSE "Low"

\* 25 files, 800 additions, 300 deletions, 4 languages, one large file and
\* 12 commits.
ComplexityScenario ==
    /\ inp.file_analysis = FileAnalysis(25, 800, 300, 4, TRUE)
    /\ inp.commit_analysis.total_commits = 12

\* C15, as claimed: the score is min(100, S) with the level of the reported
\* score, and the scenario scores 90, "High".
C15_Original ==
    out.applied =>
        /\ ComplexityRule
        /\ ComplexityScenario => out.r.score = 90 /\ out.r.level = "High"

\* C15, amended: the score is min(100, S) with the level of the reported
\* score, and the scenario, whose 1100 changes are more than 1000, adds up to
\* 30 + 40 + 15 + 15 + 10 = 110 and scores 100, "High".
C15_ComplexityScore ==
    out.applied =>
        /\ ComplexityRule
        /\ ComplexityScenario =>
              ComplexitySum = 110 /\ out.r.score = 100 /\ out.r.level = "High"

\* The scenario has been scored.
C15_Witness ==
    out.applied /\ ComplexityScenario /\ out.r.score = 100 /\ out.r.level = "High"

-----------------------------------------------------------------------------
(* SpecBranch: the branch status overview of every branch listing *)

BranchNames == {"main", "dev", "fix"}

\* The head-commit dates of the model: none, one day and five days ago.
BranchDates == {JNull} \cup {JDate(0 - k * TicksPerDay) : k \in {1, 5}}

\* A branch as GET /repos/{owner}/{repo}/branches lists it; the author has no
\* date when `date` is JNull.
Branch(name, date) ==
    LET author == IF date = JNull THEN [name |-> JStr("octocat")]
                  ELSE [name |-> JStr("octocat"), date |-> date]
    IN JObj([name |-> JStr(name),
             commit |-> JObj([sha |-> JChars(<<"7", "f", "d", "1", "a", "6", "0", "b", "0">>),
                              commit |-> JObj([author |-> JObj(author),
                                               message |-> JLines(<<"Fix", "body">>)])])])

\* Listings of branches of distinct names.
BranchListings ==
    {l \in SeqsUpTo({Branch(n, d) : n \in BranchNames, d \in BranchDates},
                    Cardinality(BranchNames)) :
        \A i, j \in DOMAIN l : i # j => l[i].o.name # l[j].o.name}

PullRequest(number, ref) ==
    JObj([number |-> JNum(number), state |-> JStr("open"), merged |-> JBool(FALSE),
          title |-> JStr("A change"), html_url |-> JStr("https://github.com/"),
          head |-> JObj([ref |-> JStr(ref)])])

PullListings ==
    {<<>>, <<PullRequest(1, "dev")>>, <<PullRequest(1, "dev"), PullRequest(2, "dev")>>,
     <<PullRequest(2, "dev"), PullRequest(1, "dev")>>,
     <<PullRequest(3, "fix"), PullRequest(1, "dev")>>}

InitBranch ==
    /\ NotInvoked
    /\ now = 0
    /\ inp \in [branches : BranchListings,
                repo_data : {JObj([default_branch |-> JStr(n)]) : n \in {"main", "dev"}},
                prs : PullListings]
    /\ out = NotApplied

ApplyBranchOverview ==
    /\ ~out.applied
    /\ out' = Applied(BranchOverview("octo", "repo", inp.branches, inp.repo_data.o,
                                     inp.prs, now))
    /\ UNCHANGED <<aggVars, now, inp>>

NextBranch == ApplyBranchOverview

SpecBranch == InitBranch /\ [][NextBranch]_vars

\* The date a row of the overview sorts by: the instant of its head commit,
\* or nothing.
RowHasDate(row) == "formatted" \in DOMAIN row.commit.date
RowInstant(row) == row.commit.date.raw.at

\* C4: the default branch is the first entry, the other branches follow by
\* head-commit date, most recent first, and those without a date come last.
C4_DefaultFirstThenByDate ==
    out.applied /\ inp.branches # <<>>
    /\ (\E i \in DOMAIN inp.branches :
           inp.branches[i].o.name = inp.repo_data.o.default_branch) =>
        LET rows == out.r.branches
        IN /\ rows[1].is_default
           /\ \A i, j \in 2..Len(rows) :
                 i < j => \/ ~RowHasDate(rows[j])
                          \/ (RowHasDate(rows[i])
                              /\ RowInstant(rows[i]) >= RowInstant(rows[j]))

\* The positions, in the PR listing of the input, of the PRs whose head ref
\* is the name of the row.
PullsOf(row) == {i \in DOMAIN inp.prs : inp.prs[i].o.head.o.ref = row.name}

\* C22: in the branch status overview, pull_request of a branch is null iff
\* no PR of the listing has the branch name as its head ref, and otherwise it
\* is the summary (number, state, merged, title, url) of the last such PR in
\* the order of the listing.
C22_LastPullRequestWins ==
    out.applied /\ inp.branches # <<>> =>
        \A k \in DOMAIN out.r.branches :
            LET row == out.r.branches[k]
                last == inp.prs[CHOOSE i \in PullsOf(row) : \A j \in PullsOf(row) : j <= i]
            IN /\ row.pull_request = JNull <=> PullsOf(row) = {}
               /\ PullsOf(row) # {} =>
                     row.pull_request = JObj([number |-> last.o.number,
                                              state |-> last.o.state,
                                              merged |-> last.o.merged,
                                              title |-> last.o.title,
                                              url |-> last.o.html_url])

\* A branch with two PRs, #2 listed before #1, has the summary of #1, and
\* another branch of the overview has none.
C22_Witness ==
    /\ out.applied /\ inp.branches # <<>>
    /\ inp.prs = <<PullRequest(2, "dev"), PullRequest(1, "dev")>>
    /\ \E k \in DOMAIN out.r.branches :
          /\ out.r.branches[k].name = JStr("dev")
          /\ out.r.branches[k].pull_request.o.number = JNum(1)
    /\ \E k \in DOMAIN out.r.branches : out.r.branches[k].pull_request = JNull

-----------------------------------------------------------------------------
(* Claims about the health report (SpecHealth) *)

HealthDone == out.applied /\ out.r.ok
HealthOut == out.r.v

\* The names in the listing of the input.
InputNames == {ItemName(inp.contents.l[i]) : i \in DOMAIN inp.contents.l}
InputFlag(k) == inp.repo_data.o[k] = JBool(TRUE)

\* The repository of C8: a README, a license, a security file, a contributing
\* file, a code-of-conduct file, a CI config file, a manifest with its lock
\* file, issues, wiki and projects enabled, and a topic.
FullyEquipped ==
    /\ "README.md" \in InputNames
    /\ "LICENSE" \in InputNames \/ inp.repo_data.o.license # JNull
    /\ InputNames \cap {"SECURITY.md", "security.md"} # {}
    /\ "CONTRIBUTING.md" \in InputNames
    /\ "CODE_OF_CONDUCT.md" \in InputNames
    /\ InputNames \cap {".travis.yml", "Jenkinsfile"} # {}
    /\ {"package.json", "package-lock.json"} \subseteq InputNames
    /\ InputFlag("has_issues") /\ InputFlag("has_wiki") /\ InputFlag("has_projects")
    /\ inp.repo_data.o.topics # JList(<<>>)

\* C8, as claimed: a repository with every listed marker scores at least 90
\* and is "Excellent".
C8_Original ==
    HealthDone /\ FullyEquipped =>
        HealthOut.health_score >= 90 /\ HealthOut.status = "Excellent"

\* C8, amended: a repository with every listed marker scores at least 63 (the
\* points of the markers: 15 + 10 + 5 + 3 + 3 + 8 + 7 + 3 + 2 + 2 + 5) and is
\* "Needs Improvement" or better.
C8_MarkersScore63 ==
    HealthDone /\ FullyEquipped =>
        /\ HealthOut.health_score >= 63
        /\ HealthOut.status \in {"Needs Improvement", "Good", "Excellent"}

\* Such a repository with nothing else: 63 points, "Needs Improvement".
C8_Witness ==
    /\ HealthDone /\ FullyEquipped
    /\ inp.contents = OneOfEachListing
    /\ HealthOut.health_score = 63
    /\ HealthOut.status = "Needs Improvement"

\* C9: the reported health percentage is within [0, 100].
C9_PercentageInRange ==
    HealthDone => HealthOut.health_score >= 0 /\ HealthOut.health_score <= 100

\* The points add up to more than the budget and 100 is reported.
C9_Witness ==
    /\ HealthDone
    /\ HealthScore(inp.repo_data.o, inp.contents.l, now) > max_score
    /\ HealthOut.health_score = 100

\* C10: the status label is decided by the percentage alone, with the bands
\* >= 90, [70, 90), [50, 70) and < 50.
C10_StatusBands ==
    HealthDone =>
        LET p == HealthOut.health_score
            st == HealthOut.status
        IN /\ st = "Excellent" <=> p >= 90
           /\ st = "Good" <=> (p >= 70 /\ p < 90)
           /\ st = "Needs Improvement" <=> (p >= 50 /\ p < 70)
           /\ st = "Poor" <=> p < 50

\* A report at the lowest percentage of the top band.
C10_Witness ==
    HealthDone /\ HealthOut.health_score = 90 /\ HealthOut.status = "Excellent"

\* The entries of the listing of the input that are known CI configuration
\* files, and whether the listing has a .github directory.
InputCiFiles == {i \in DOMAIN inp.contents.l : ItemName(inp.contents.l[i]) \in ci_files}
InputHasGithubDir ==
    \E i \in DOMAIN inp.contents.l : /\ ItemName(inp.contents.l[i]) = ".github"
                                      /\ ItemType(inp.contents.l[i]) = "dir"

\* C23: the CI/CD check scores 8 points for each top-level entry that is a
\* known CI configuration file, and 2 more for a .github directory only when
\* no CI file matched: a listing with a CI file and a .github directory
\* scores 8 for one CI file, not 10.
C23_GithubDirOnlyWithoutCi ==
    HealthDone =>
        HealthOut.details.ci_cd.score
            = 8 * Cardinality(InputCiFiles)
              + (IF InputCiFiles = {} /\ InputHasGithubDir THEN 2 ELSE 0)

Recommended(text) ==
    \E i \in DOMAIN HealthOut.recommendations : HealthOut.recommendations[i] = text

\* The four specific recommendations against their markers, and the catch-all
\* against the percentage.
ReadmeRecommendation ==
    Recommended("Add a comprehensive README with setup instructions")
        <=> ~HealthOut.details.readme.exists
LicenseRecommendation ==
    Recommended("Add a LICENSE file to clarify usage rights")
        <=> ~HealthOut.details.license.exists
SecurityRecommendation ==
    Recommended("Add security policies (SECURITY.md)")
        <=> InputNames \cap security_files = {}
CiRecommendation ==
    Recommended("Set up CI/CD workflows and automated testing") <=> InputCiFiles = {}
CatchAllRecommendation ==
    Recommended("Address the issues listed to improve health")
        <=> HealthOut.health_score < 90

\* C24: each of the four specific recommendations of the health report is
\* present iff its marker is absent (README, license, security file, CI
\* configuration), and the catch-all recommendation is present iff the health
\* percentage is below 90.
C24_RecommendationsFollowMarkers ==
    HealthDone =>
        /\ ReadmeRecommendation
        /\ LicenseRecommendation
        /\ SecurityRecommendation
        /\ CiRecommendation
        /\ CatchAllRecommendation

-----------------------------------------------------------------------------
(* Responses of the GitHub API *)

\* An httpx.Response: the status code, the body text and what json() makes
\* of the body.
OkResponse(v) == [status |-> 200, text |-> <<"<json>">>, json |-> Ret(v)]
ErrorResponse(code, message) ==
    [status |-> code,
     text |-> <<"{\"message\": \"", message, "\"}">>,
     json |-> Ret(JObj([message |-> JStr(message)]))]
BadGateway ==
    [status |-> 502, text |-> <<"<html>502 Bad Gateway</html>">>,
     json |-> Raise("JSONDecodeError")]
\* client.get() raised instead of answering (httpx.TimeoutException).
NoResponse == [status |-> 0, text |-> <<>>, json |-> Raise("TimeoutException")]

\* Repositories of a user's repository list and starred list.
RepoItem(name, description, language, stars, fork, age) ==
    JObj([name |-> JStr(name), full_name |-> JStr(name),
          description |-> description,
          language |-> language,
          stargazers_count |-> JNum(stars), forks_count |-> JNum(1),
          watchers_count |-> JNum(stars),
          fork |-> JBool(fork),
          topics |-> JList(<<"mcp">>),
          updated_at |-> JDate(0 - age * TicksPerDay)])

RepoLists ==
    {<<>>,
     <<RepoItem("octo/server", JStr("An MCP server"), JStr("Python"), 3, FALSE, 1)>>,
     <<RepoItem("octo/server", JStr("An MCP server"), JStr("Python"), 3, FALSE, 1),
       RepoItem("octo/fork", JStr("<a description of 120 characters>"), JNull, 0, TRUE, 2)>>,
     <<RepoItem("octo/bare", JNull, JNull, 0, FALSE, 1)>>}

\* Events, pull requests and issues: a type or state and a created_at.
Dated(kind, created_at) ==
    JObj([type |-> JStr(kind), state |-> JStr("open"), number |-> JNum(7),
          created_at |-> created_at,
          repo |-> JObj([name |-> JStr("octo/server")])])
Undated(kind) ==
    JObj([type |-> JStr(kind), state |-> JStr("open"), number |-> JNum(8)])

DatedLists ==
    {<<>>,
     <<Dated("PushEvent", JDate(0))>>,
     <<Dated("PullRequestEvent", JDate(0 - TicksPerDay)),
       Dated("IssuesEvent", JDate(0 - MaxDays * TicksPerDay - 1))>>,
     <<Undated("PushEvent")>>}

UserBody ==
    JObj([login |-> JStr("octocat"), name |-> JStr("The Octocat"),
          public_repos |-> JNum(2), followers |-> JNum(1)])

ContributorLists ==
    {<<>>, <<JObj([login |-> JStr("octocat"), contributions |-> JNum(5)])>>}

CommitItem(name) ==
    JObj([sha |-> JChars(<<"a", "b", "c", "d", "e", "f", "0", "1">>),
          commit |-> JObj([author |-> JObj([name |-> JStr(name), date |-> JDate(0)]),
                           message |-> JLines(<<"Fix the parser", "", "Details.">>)])])
CommitLists == {<<>>, <<CommitItem("octocat")>>}

PullBody(body, mergeable) ==
    JObj([number |-> JNum(7), title |-> JStr("Fix the parser"),
          state |-> JStr("open"), mergeable |-> mergeable,
          user |-> JObj([login |-> JStr("octocat")]),
          head |-> JObj([ref |-> JStr("fix")]),
          base |-> JObj([ref |-> JStr("main")]),
          body |-> body])
PullBodies ==
    {PullBody(JStr("Fixes the parser"), JBool(TRUE)),
     PullBody(JStr("   "), JBool(FALSE)),
     PullBody(JNull, JNull)}

FileItem(filename, changes) ==
    JObj([filename |-> JStr(filename), status |-> JStr("modified"),
          additions |-> JNum(changes), deletions |-> JNum(0),
          changes |-> JNum(changes)])
FileLists ==
    {<<>>, <<FileItem("app.py", 120), FileItem("tests/test_app.py", 3)>>}

ReviewItem(state) ==
    JObj([id |-> JNum(1), state |-> JStr(state),
          user |-> JObj([login |-> JStr("hubot")])])
ReviewLists ==
    {<<>>, <<ReviewItem("APPROVED")>>,
     <<ReviewItem("CHANGES_REQUESTED"), ReviewItem("APPROVED")>>}

CommentLists ==
    {<<>>, <<JObj([id |-> JNum(1), body |-> JStr("Looks good"),
                   user |-> JObj([login |-> JStr("hubot")])])>>}

\* The manifests a dependency scan downloads.
OkFile(json, lines) == [status |-> 200, text |-> <<"<file>">>, json |-> json, lines |-> lines]

FileResponses(file_name) ==
    CASE file_name = "package.json" ->
           {OkFile(Ret(JObj([dependencies |-> JObj([helmet |-> JStr("^7.0.0"),
                                                    express |-> JStr("^4.18.0")]),
                             devDependencies |-> JObj([jest |-> JStr("^29.0.0")])])),
                   <<"{">>),
            OkFile(Ret(JObj([name |-> JStr("server")])), <<"{">>),
            OkFile(Ret(JList(<<>>)), <<"[]">>),
            OkFile(Raise("JSONDecodeError"), <<"{,}">>)}
      [] file_name = "requirements.txt" ->
           {OkFile(Raise("JSONDecodeError"),
                   <<"# pinned", "requests==2.31.0", "", "  pytest",
                     "cryptography==41.0.0">>)}
      [] file_name = "Gemfile" ->
           {OkFile(Raise("JSONDecodeError"), <<"# gems", "gem 'rails'", "gem 'rake'">>)}
      [] OTHER ->
           {OkFile(Raise("JSONDecodeError"), <<"[packages]", "[dev-packages]">>)}

\* Listings with manifests: every file of HealthFiles, and a Gemfile next to
\* a Pipfile and a go.mod that have no download_url, before a package.json.
ManifestListing ==
    JList(<<Entry("Gemfile"),
            JObj([name |-> JStr("Pipfile"), type |-> JStr("file"),
                  download_url |-> JNull]),
            JObj([name |-> JStr("go.mod"), type |-> JStr("file")]),
            Entry("package.json")>>)

DependencyListings ==
    {Listing({}), Listing(DOMAIN HealthFiles), ManifestListing,
     Listing({i \in DOMAIN HealthFiles : HealthFiles[i] = "package.json"})}

-----------------------------------------------------------------------------
(* The aggregators: token check, fetches in order, analysis, report *)

Aggregators == {"user", "repository", "pr", "branches", "health", "dependencies"}

\* The token check skipped.
token_never_missing(token) == FALSE
\* if not GITHUB_TOKEN
token_missing(token) == ~token

\* The report of the token check.  (The text opens with a warning sign.)
NotConfigured == [error |-> <<"No GITHUB_TOKEN set in environment.">>]

\* The URLs an aggregator requests, in order, before any manifest.
Endpoints(o) ==
    CASE o = "user" ->
           << <<"/users/{username}">>, <<"/users/{username}/repos">>,
              <<"/users/{username}/events">>, <<"/users/{username}/starred">> >>
      [] o = "repository" ->
           << <<"/repos/{owner}/{repo}">>, <<"/repos/{owner}/{repo}/contributors">>,
              <<"/repos/{owner}/{repo}/commits">>, <<"/repos/{owner}/{repo}/pulls">>,
              <<"/repos/{owner}/{repo}/issues">> >>
      [] o = "pr" ->
           << <<"/repos/{owner}/{repo}/pulls/{pr_number}">>,
              <<"/repos/{owner}/{repo}/pulls/{pr_number}/files">>,
              <<"/repos/{owner}/{repo}/pulls/{pr_number}/commits">>,
              <<"/repos/{owner}/{repo}/pulls/{pr_number}/reviews">>,
              <<"/repos/{owner}/{repo}/pulls/{pr_number}/comments">> >>
      [] o = "branches" ->
           << <<"/repos/{owner}/{repo}/branches">>, <<"/repos/{owner}/{repo}">>,
              <<"/repos/{owner}/{repo}/pulls">> >>
      [] o = "health" ->
           << <<"/repos/{owner}/{repo}">>, <<"/repos/{owner}/{repo}/contents">>,
              <<"/repos/{owner}/{repo}/community/profile">> >>
      [] o = "dependencies" -> << <<"/repos/{owner}/{repo}/contents">> >>

\* The text of the generic `except Exception` report of each aggregator.
generic_error(o) ==
    CASE o = "user" -> "Exception occurred while fetching contribution data"
      [] o = "repository" -> "Exception occurred while fetching repository data"
      [] o = "pr" -> "Exception occurred while fetching PR data"
      [] o = "branches" -> "Exception occurred while fetching branch status"
      [] o = "health" -> "Exception occurred while checking repository health"
      [] o = "dependencies" -> "Error analyzing dependencies"

\* How the response to the k-th request is read: "strict" calls
\* raise_for_status() and json(), "lenient" calls json() whatever the status,
\* "optional" calls json() on a 200 only, "file" analyses the text of a 200.
FetchMode(o, k) ==
    CASE o = "health" -> IF k <= 2 THEN "lenient" ELSE "optional"
      [] o = "dependencies" /\ k > 1 -> "file"
      [] OTHER -> "strict"

\* A raise_for_status() that never raises.
raise_for_status_Never(r) == Ret(r)
\* Response.raise_for_status(): HTTPStatusError unless the status is 2xx.
raise_for_status(r) ==
    IF r.status \in 200..299 THEN Ret(r) ELSE Raise("HTTPStatusError")

\* The manifests the scan downloads after the listing `r`, in order.
ManifestsOf(r) == FetchedDependencyFiles(ListingItems(r.json.v).v)

\* Reading the response r to the k-th request, `got` being the responses
\* before it: Ret when the aggregator goes on, Raise when the read raises.
Receive(o, k, r, got) ==
    CASE FetchMode(o, k) = "strict" ->
           IF ~raise_for_status(r).ok THEN raise_for_status(r)
           ELSE IF ~r.json.ok THEN r.json
           ELSE IF o = "dependencies" /\ ~ListingItems(r.json.v).ok
                THEN ListingItems(r.json.v)
           ELSE Ret(r)
      [] FetchMode(o, k) = "lenient" -> IF r.json.ok THEN Ret(r) ELSE r.json
      [] FetchMode(o, k) = "optional" ->
           IF r.status = 200 /\ ~r.json.ok THEN r.json ELSE Ret(r)
      [] FetchMode(o, k) = "file" ->
           LET file_name == ItemName(ManifestsOf(got[1])[k - 1])
               analysis == _analyze_dependency_file_json(file_name, r)
           IN IF r.status = 200 /\ ~analysis.ok THEN analysis ELSE Ret(r)

\* The URLs of the whole invocation, known once the first response is in.
Plan(o, got) ==
    IF o = "dependencies" /\ got # <<>>
    THEN Endpoints(o)
         \o [i \in DOMAIN ManifestsOf(got[1]) |->
                <<"download_url of ", ItemName(ManifestsOf(got[1])[i])>>]
    ELSE Endpoints(o)

\* The classes `except Exception` catches.
Exceptions ==
    {"HTTPStatusError", "TimeoutException", "JSONDecodeError", "AttributeError",
     "TypeError", "ValueError", "KeyError"}

\* HTTPErrorReport without the body of the response.
HTTPErrorReport_NoBody(r) == [error |-> <<"HTTP error ", r.status>>, details |-> <<>>]
\* The two handlers every aggregator ends with; r is e.response.
HTTPErrorReport(r) == [error |-> <<"HTTP error ", r.status>>, details |-> r.text]
GenericReport(o, exc) == [error |-> <<generic_error(o)>>, details |-> <<exc>>]
Catch(o, exc, r) ==
    IF exc = "HTTPStatusError" THEN HTTPErrorReport(r) ELSE GenericReport(o, exc)

\* Lines 389-418 of health.py: the report of the scan, from the listing and
\* the manifests received.
DependencyReport(owner, repo, got) ==
    LET contents == ListingItems(got[1].json.v).v
        found == DependencyFiles(contents)
        fetchedFiles == FetchedDependencyFiles(contents)
        answered == {i \in DOMAIN fetchedFiles : got[i + 1].status = 200}
        results[i \in 0..Len(fetchedFiles)] ==
            IF i = 0 THEN <<>>
            ELSE IF i \in answered
                 THEN Append(results[i - 1],
                        [file |-> ItemName(fetchedFiles[i]),
                         analysis |-> _analyze_dependency_file_json(
                                          ItemName(fetchedFiles[i]), got[i + 1]).v])
                 ELSE results[i - 1]
    IN IF found = <<>>
       THEN [owner |-> owner, repo |-> repo, dependency_files_found |-> <<>>,
             message |-> "No dependency files found"]
       ELSE [owner |-> owner, repo |-> repo,
             dependency_files_found |-> [i \in DOMAIN found |-> ItemName(found[i])],
             results |-> results[Len(fetchedFiles)]]

\* What the aggregator computes from the decoded bodies once every fetch is
\* in.  datetime.now() and datetime.now(timezone.utc) are both `at`.
Analysis(o, a, got, at) ==
    LET body(i) == got[i].json.v
    IN CASE o = "user" ->
              _analyze_user_contributions(body(1).o, body(2).l, body(3).l, body(4).l,
                                          a.days, at, at)
         [] o = "repository" ->
              _analyze_repository_contributions(body(1).o, body(2).l, body(3).l,
                                                body(4).l, body(5).l, a.days, at)
         [] o = "pr" ->
              _analyze_pr_data(body(1).o, body(2).l, body(3).l, body(4).l, body(5).l)
         [] o = "branches" ->
              Ret(BranchOverview("octo", "repo", body(1).l, body(2).o, body(3).l, at))
         [] o = "health" -> HealthReport("octo", "repo", body(1), body(2), at)
         [] o = "dependencies" -> Ret(DependencyReport("octo", "repo", got))

\* The failures an endpoint may answer with.
Errors == {ErrorResponse(404, "Not Found"), BadGateway}

Ok(S) == {OkResponse(v) : v \in S}
OkLists(S) == {OkResponse(JList(l)) : l \in S}

\* What GitHub may answer to the k-th request of aggregator o.
Responses(o, k, got) ==
    CASE o = "user" ->
           Errors \cup (CASE k = 1 -> Ok({UserBody})
                          [] k = 2 -> OkLists(RepoLists)
                          [] k = 3 -> OkLists(DatedLists)
                          [] k = 4 -> OkLists(RepoLists))
      [] o = "repository" ->
           Errors \cup (CASE k = 1 -> Ok({RepoItem("octo/server", JNull, JStr("Python"),
                                                   3, FALSE, 1)})
                          [] k = 2 -> OkLists(ContributorLists)
                          [] k = 3 -> OkLists(CommitLists)
                          [] k = 4 -> OkLists(DatedLists)
                          [] k = 5 -> OkLists(DatedLists))
      [] o = "pr" ->
           Errors \cup (CASE k = 1 -> Ok(PullBodies)
                          [] k = 2 -> OkLists(FileLists)
                          [] k = 3 -> OkLists(CommitLists)
                          [] k = 4 -> OkLists(ReviewLists)
                          [] k = 5 -> OkLists(CommentLists))
      [] o = "branches" ->
           Errors \cup (CASE k = 1 -> OkLists({<<>>,
                                         <<Branch("main", JDate(0 - 5 * TicksPerDay)),
                                           Branch("dev", JNull),
                                           Branch("fix", JDate(0 - TicksPerDay))>>})
                          [] k = 2 -> Ok({JObj([default_branch |-> JStr("main")])})
                          [] k = 3 -> OkLists({<<>>, <<PullRequest(1, "dev")>>}))
      [] o = "health" ->
           (CASE k = 1 -> Errors \cup Ok(RepoDataPresets)
              [] k = 2 -> {ErrorResponse(404, "This repository is empty."), BadGateway}
                          \cup Ok(ListingPresets)
              [] k = 3 -> Errors \cup Ok({JObj([health_percentage |-> JNum(57)])}))
      [] o = "dependencies" ->
           IF k = 1 THEN Errors \cup Ok(DependencyListings)
           ELSE {ErrorResponse(404, "Not Found")}
                \cup FileResponses(ItemName(ManifestsOf(got[1])[k - 1]))

-----------------------------------------------------------------------------
(* Spec: one invocation of one aggregator *)

Init ==
    /\ GITHUB_TOKEN \in BOOLEAN
    /\ now = 0
    /\ op = "none"
    /\ pc = "idle"
    /\ args = [days |-> 0]
    /\ fetched = <<>>
    /\ requests = <<>>
    /\ result = [pending |-> TRUE]
    /\ escaped = FALSE
    /\ inp = NotApplied
    /\ out = NotApplied

\* The call, up to the token check.
Invoke ==
    /\ pc = "idle"
    /\ \E o \in Aggregators, days \in 0..MaxDays :
        /\ o \in {"user", "repository"} \/ days = 0
        /\ op' = o
        /\ args' = [days |-> days]
    /\ IF token_missing(GITHUB_TOKEN)
       THEN /\ result' = NotConfigured
            /\ pc' = "done"
       ELSE /\ result' = result
            /\ pc' = "fetching"
    /\ UNCHANGED <<GITHUB_TOKEN, now, fetched, requests, escaped, inp, out>>

\* The end of the try block on the exception exc; r is the response at hand.
Handled(exc, r) ==
    /\ pc' = "done"
    /\ result' = IF exc \in Exceptions THEN Catch(op, exc, r) ELSE result
    /\ escaped' = (exc \notin Exceptions)

\* The next client.get() answers, and the aggregator reads the answer.
Fetch ==
    /\ pc = "fetching"
    /\ LET k == Len(requests) + 1
       IN \E r \in Responses(op, k, fetched) :
            /\ requests' = Append(requests, Plan(op, fetched)[k])
            /\ fetched' = Append(fetched, r)
            /\ IF Receive(op, k, r, fetched).ok
               THEN /\ pc' = IF k < Len(Plan(op, fetched')) THEN "fetching"
                             ELSE "analysing"
                    /\ UNCHANGED <<result, escaped>>
               ELSE Handled(Receive(op, k, r, fetched).exc, r)
    /\ UNCHANGED <<GITHUB_TOKEN, now, op, args, inp, out>>

\* The next client.get() raises instead: a timeout of config.TIMEOUT.
FetchTimesOut ==
    /\ pc = "fetching"
    /\ requests' = Append(requests, Plan(op, fetched)[Len(requests) + 1])
    /\ fetched' = Append(fetched, NoResponse)
    /\ Handled(NoResponse.json.exc, NoResponse)
    /\ UNCHANGED <<GITHUB_TOKEN, now, op, args, inp, out>>

\* The analysis of the decoded bodies and the return of its report.
Analyse ==
    /\ pc = "analysing"
    /\ LET r == Analysis(op, args, fetched, now)
       IN IF r.ok
          THEN /\ pc' = "done"
               /\ result' = r.v
               /\ escaped' = escaped
          ELSE Handled(r.exc, NoResponse)
    /\ UNCHANGED <<GITHUB_TOKEN, now, op, args, fetched, requests, inp, out>>

Next == Invoke \/ Fetch \/ FetchTimesOut \/ Analyse

Spec == Init /\ [][Next]_vars

-----------------------------------------------------------------------------
(* Claims about one invocation (Spec) *)

Done == pc = "done"

\* The responses of the invocation that carry an HTTP error status.
HTTPFailures == {i \in DOMAIN fetched : fetched[i].status \notin 200..299
                                        /\ fetched[i].status # 0}
FirstOf(S) == CHOOSE i \in S : \A j \in S : i <= j

\* The report sections of the three aggregators of C1.
Sections ==
    {"profile", "repositories", "activity", "languages", "collaboration", "starred",
     "repository", "contributors", "commits", "pull_requests", "issues",
     "pr_info", "file_changes", "reviews", "comments", "insights",
     "analysis_period_days"}

\* C1: in the user, repository and PR aggregators, a fetch answered with an
\* HTTP error status ends the invocation with a report whose `error` names
\* that status and whose `details` is the body of that response, with no
\* report section in it.
C1_AllOrNothingHTTPFailure ==
    Done /\ op \in {"user", "repository", "pr"} /\ HTTPFailures # {} =>
        LET r == fetched[FirstOf(HTTPFailures)]
        IN /\ DOMAIN result = {"error", "details"}
           /\ result.error = <<"HTTP error ", r.status>>
           /\ result.details = r.text
           /\ DOMAIN result \cap Sections = {}

\* The third fetch of the user aggregator answers 404 after two fetches that
\* brought data.
C1_Witness ==
    /\ Done /\ op = "user" /\ Len(fetched) = 3
    /\ fetched[2].status = 200 /\ fetched[2].json.v.l # <<>>
    /\ fetched[3].status = 404
    /\ result.error = <<"HTTP error ", 404>>
    /\ result.details = ErrorResponse(404, "Not Found").text

\* The fetches an aggregator cannot do without: all but the community
\* profile of the health check and the manifests of the dependency scan.
Required(o, k) == FetchMode(o, k) \in {"strict", "lenient"}

\* A read of a response, or the analysis of the bodies, raised.
ReadRaised ==
    \E i \in DOMAIN fetched : ~Receive(op, i, fetched[i], SubSeq(fetched, 1, i - 1)).ok
AnalysisRaised ==
    /\ fetched # <<>> /\ ~ReadRaised
    /\ Len(fetched) = Len(Plan(op, fetched))
    /\ ~Analysis(op, args, fetched, now).ok

\* The invocation failed: no token, a fetch that raised, a required fetch
\* without a 2xx answer, or an exception in a read or in the analysis.
InvocationFailed ==
    \/ ~GITHUB_TOKEN
    \/ \E i \in DOMAIN fetched : fetched[i] = NoResponse
    \/ \E i \in DOMAIN fetched : Required(op, i) /\ fetched[i].status \notin 200..299
    \/ ReadRaised
    \/ AnalysisRaised

\* C2: every invocation ends by returning a mapping, no exception escapes,
\* and the mapping has a top-level `error` key if and only if the invocation
\* failed.
C2_MappingAndErrorIffFailed ==
    /\ ~escaped
    /\ Done => /\ "pending" \notin DOMAIN result
               /\ "error" \in DOMAIN result <=> InvocationFailed

\* C3: without a token the report is the 'not configured' failure alone and
\* no request is ever issued.
C3_NoTokenNoRequest ==
    ~GITHUB_TOKEN =>
        /\ requests = <<>>
        /\ pc \in {"idle", "done"}
        /\ Done => result = NotConfigured /\ DOMAIN result = {"error"}

\* The health check invoked without a token has returned.
C3_Witness ==
    /\ ~GITHUB_TOKEN /\ Done /\ op = "health"
    /\ result = NotConfigured /\ requests = <<>>

\* C5: a non-2xx answer to the metadata fetch or to the contents fetch of the
\* health check is reported as the HTTP failure (`error` names the status,
\* `details` is the body), and no health score is computed.
C5_HealthPropagatesHTTPFailure ==
    Done /\ op = "health" /\ HTTPFailures \cap {1, 2} # {} =>
        LET r == fetched[FirstOf(HTTPFailures \cap {1, 2})]
        IN /\ DOMAIN result = {"error", "details"}
           /\ result.error = <<"HTTP error ", r.status>>
           /\ result.details = r.text

\* C7: when the four fetches of the user aggregator succeed, the report has
\* no `error` key and has the five sections.
C7_UserReportHasFiveSections ==
    Done /\ op = "user" /\ Len(fetched) = 4
         /\ (\A i \in DOMAIN fetched : fetched[i].status \in 200..299) =>
        /\ "error" \notin DOMAIN result
        /\ {"repositories", "activity", "languages", "collaboration", "starred"}
               \subseteq DOMAIN result

\* The downloads of the invocation that delivered a package.json the analyzer
\* cannot read as a manifest: text that is not JSON, or JSON that is not an
\* object.
IsPackageJson(i) == requests[i] = <<"download_url of ", "package.json">>
MalformedManifests ==
    {i \in 2..Len(fetched) : IsPackageJson(i) /\ fetched[i].status = 200
                                /\ ~fetched[i].json.ok}
MisshapenManifests ==
    {i \in 2..Len(fetched) : IsPackageJson(i) /\ fetched[i].status = 200
                                /\ fetched[i].json.ok /\ fetched[i].json.v.t # "obj"}
NoTimeout == \A i \in DOMAIN fetched : fetched[i] # NoResponse

\* The scan returned its report, with an entry for every manifest that was
\* located and downloaded, the entry of package.json holding an error value.
ScanSurvived ==
    /\ "error" \notin DOMAIN result
    /\ "results" \in DOMAIN result
    /\ Len(requests) = Len(Plan(op, fetched))
    /\ \E j \in DOMAIN result.results :
          /\ result.results[j].file = "package.json"
          /\ "error" \in DOMAIN result.results[j].analysis
    /\ \A i \in 2..Len(fetched) :
          fetched[i].status = 200 =>
              \E j \in DOMAIN result.results : <<"download_url of ",
                                                  result.results[j].file>> = requests[i]

\* C19: in the dependency scan a located manifest that is malformed JSON, or
\* valid JSON of an unexpected shape such as a top-level array, gives an error
\* value inside that file's entry of `results` only: the scan returns a report
\* without a top-level `error` and every other located manifest is analysed.
C19_ManifestErrorIsLocal ==
    Done /\ op = "dependencies" /\ NoTimeout
         /\ MalformedManifests \cup MisshapenManifests # {}
        => ScanSurvived

\* C27: the user, repository and PR aggregators issue their fetches one
\* after another in a fixed order (the requests made so far are always the
\* first ones of that order, one answer per request), and once a fetch has
\* answered with an HTTP error the invocation is over: no later fetch is
\* issued and no analysis runs, the result being the report of that error.
C27_FixedOrderStopAtFailure ==
    op \in {"user", "repository", "pr"} =>
        /\ Len(requests) <= Len(Endpoints(op))
        /\ requests = SubSeq(Endpoints(op), 1, Len(requests))
        /\ Len(fetched) = Len(requests)
        /\ pc = "analysing" => Len(requests) = Len(Endpoints(op))
        /\ HTTPFailures # {} =>
              /\ HTTPFailures = {Len(fetched)}
              /\ Done
              /\ result = HTTPErrorReport(fetched[Len(fetched)])

\* The repository aggregator has stopped at the HTTP error of its third
\* fetch, the commits.
C27_Witness ==
    /\ op = "repository" /\ Done
    /\ requests = << <<"/repos/{owner}/{repo}">>, <<"/repos/{owner}/{repo}/contributors">>,
                     <<"/repos/{owner}/{repo}/commits">> >>
    /\ HTTPFailures = {3}
    /\ result = HTTPErrorReport(fetched[3])

\* The fetches of the invocation that failed (an HTTP error status) or timed
\* out, and the report that hands such a failure to the caller.
FailedFetches == {i \in DOMAIN fetched : fetched[i].status \notin 200..299}
FailureReport(r) ==
    IF r = NoResponse THEN GenericReport(op, "TimeoutException") ELSE HTTPErrorReport(r)

\* C20: there is no retry.  Within one invocation of an aggregator every
\* endpoint is requested at most once, a fetch that failed or timed out is
\* not issued again, and its error is the result of the invocation.
C20_NoRetry ==
    /\ Len(requests) = Len(fetched)
    /\ \A i, j \in DOMAIN requests : i # j => requests[i] # requests[j]
    /\ \A i \in FailedFetches :
          /\ i = Len(fetched)
          /\ Done
          /\ result = FailureReport(fetched[i])

\* The manifests of the listing the scan received, by name and in listing
\* order: all of them, those with a download URL, and of these the ones
\* whose download answered 200.
Located ==
    SelectSeq(fetched[1].json.v.l, LAMBDA item : item.o.name.s \in known_files)
Downloadable ==
    SelectSeq(Located, LAMBDA item : /\ "download_url" \in DOMAIN item.o
                                     /\ item.o.download_url.t = "str"
                                     /\ item.o.download_url.s # "")
Answered200 ==
    {i \in DOMAIN Downloadable : i + 1 \in DOMAIN fetched /\ fetched[i + 1].status = 200}
NamesOf(items, S) ==
    LET pick[i \in 0..Len(items)] ==
            IF i = 0 THEN <<>>
            ELSE IF i \in S THEN Append(pick[i - 1], items[i].o.name.s)
                 ELSE pick[i - 1]
    IN pick[Len(items)]
RefusedDownloads == {i \in HTTPFailures : i >= 2}

\* C30: in the report of the dependency scan, dependency_files_found names
\* every located manifest and results names, in the same order, those of
\* them that have a download URL and whose download answered 200; the others
\* have no entry in results.  A download that does not answer 200 ends
\* nothing: the scan goes on to the remaining manifests and, after the last
\* one, returns its report.
C30_OmittedManifests ==
    op = "dependencies" =>
        /\ Done /\ "results" \in DOMAIN result =>
              /\ result.dependency_files_found = NamesOf(Located, DOMAIN Located)
              /\ [j \in DOMAIN result.results |-> result.results[j].file]
                    = NamesOf(Downloadable, Answered200)
              /\ Len(requests) = 1 + Len(Downloadable)
        /\ \A i \in RefusedDownloads :
              i = Len(fetched) =>
                  IF i < 1 + Len(Downloadable) THEN pc = "fetching"
                  ELSE pc = "analysing" \/ (Done /\ "results" \in DOMAIN result)

\* A scan that located four manifests has returned: the Gemfile was
\* refused (404), two have no download URL, and package.json is the one
\* entry of results.
C30_Witness ==
    /\ op = "dependencies" /\ Done /\ "results" \in DOMAIN result
    /\ fetched[1].json.v = ManifestListing
    /\ RefusedDownloads = {2}
    /\ result.dependency_files_found = <<"Gemfile", "Pipfile", "go.mod", "package.json">>
    /\ Len(result.results) = 1 /\ result.results[1].file = "package.json"

-----------------------------------------------------------------------------
(* SpecReview: the review status of every list of reviews *)

MaxReviews == 3
ReviewStates == {"APPROVED", "CHANGES_REQUESTED", "COMMENTED", "DISMISSED"}

InitReview ==
    /\ NotInvoked
    /\ now = 0
    /\ inp \in {[reviews |-> [i \in DOMAIN q |-> ReviewItem(q[i])]] :
                    q \in SeqsUpTo(ReviewStates, MaxReviews)}
    /\ out = NotApplied

\* Lines 40-49 and 75: the reviews are analysed and the analysis is assessed.
AssessReviewStatus ==
    /\ ~out.applied
    /\ out' = Applied(_assess_review_status(_analyze_reviews(inp.reviews)))
    /\ UNCHANGED <<aggVars, now, inp>>

NextReview == AssessReviewStatus

SpecReview == InitReview /\ [][NextReview]_vars

ReviewsIn(state) ==
    {i \in DOMAIN inp.reviews : inp.reviews[i] = ReviewItem(state)}

\* C16: the status is "Ready to merge" iff some review is APPROVED and none
\* is CHANGES_REQUESTED, "Changes requested" iff some review is
\* CHANGES_REQUESTED, "Under review" iff there are reviews and none is of
\* either state, "Awaiting review" iff there is no review; the status is one
\* of these four labels.
C16_ReviewStatus ==
    out.applied =>
        LET approved == ReviewsIn("APPROVED") # {}
            changes == ReviewsIn("CHANGES_REQUESTED") # {}
            status == out.r.status
        IN /\ status \in {"Ready to merge", "Changes requested", "Under review",
                           "Awaiting review"}
           /\ status = "Ready to merge" <=> approved /\ ~changes
           /\ status = "Changes requested" <=> changes
           /\ status = "Under review" <=> inp.reviews # <<>> /\ ~approved /\ ~changes
           /\ status = "Awaiting review" <=> inp.reviews = <<>>

\* An approved pull request with a later request for changes has been
\* assessed.
C16_Witness ==
    /\ out.applied
    /\ inp.reviews = <<ReviewItem("APPROVED"), ReviewItem("COMMENTED"),
                       ReviewItem("CHANGES_REQUESTED")>>
    /\ out.r.status = "Changes requested"

-----------------------------------------------------------------------------
(* SpecManifest: the analysis of every package manifest that is an object *)

PackageNames == {"helmet", "express", "jest"}

\* The sections a manifest may have: absent, or an object of entries.
Absent == [present |-> FALSE, entries |-> {}]
ManifestSections ==
    {Absent} \cup {[present |-> TRUE, entries |-> S] : S \in SUBSET PackageNames}

\* What json.loads makes of a manifest with the two sections.
Manifest(deps, dev) ==
    LET keys == {"name"} \cup (IF deps.present THEN {"dependencies"} ELSE {})
                         \cup (IF dev.present THEN {"devDependencies"} ELSE {})
        section(S) == JObj([pkg \in S.entries |-> JStr("^1.0.0")])
    IN JObj([k \in keys |-> CASE k = "name" -> JStr("server")
                               [] k = "dependencies" -> section(deps)
                               [] OTHER -> section(dev)])

InitManifest ==
    /\ NotInvoked
    /\ now = 0
    /\ inp \in {[deps |-> d, dev |-> v, content |-> OkFile(Ret(Manifest(d, v)), <<"{">>)] :
                    d \in ManifestSections, v \in ManifestSections}
    /\ out = NotApplied

AnalyzePackageJson ==
    /\ ~out.applied
    /\ out' = Applied(_analyze_dependency_file_json("package.json", inp.content))
    /\ UNCHANGED <<aggVars, now, inp>>

NextManifest == AnalyzePackageJson

SpecManifest == InitManifest /\ [][NextManifest]_vars

EntriesOf(section) == Cardinality(section.entries)

\* C18: a manifest that is a JSON object with N entries under dependencies
\* and M under devDependencies is reported with dependencies_count = N and
\* dev_dependencies_count = M, an absent section counting 0.
C18_ManifestCounts ==
    out.applied =>
        /\ out.r.ok
        /\ out.r.v.dependencies_count = EntriesOf(inp.deps)
        /\ out.r.v.dev_dependencies_count = EntriesOf(inp.dev)

\* A manifest without a dependencies section and with two development
\* dependencies has been analysed.
C18_Witness ==
    /\ out.applied
    /\ inp.deps = Absent
    /\ inp.dev = [present |-> TRUE, entries |-> {"jest", "express"}]
    /\ out.r.v.dependencies_count = 0
    /\ out.r.v.dev_dependencies_count = 2

-----------------------------------------------------------------------------
(* SpecPair: two concurrent invocations of one aggregator, on two subjects *)

\* The aggregators invoked in pairs, and the window each call asks for.
PairAggregators == {"user", "pr", "branches"}
DaysOf(c) == IF op \in {"user", "repository"} THEN c - 1 ELSE 0

\* The two calls and their subjects.  In this specification pc, args,
\* fetched, requests, result and escaped hold one value per call: they are
\* the local variables of the call (each call opens its own httpx.Client),
\* while GITHUB_TOKEN is the module-level value of config.py both calls read.
Calls == {1, 2}
Subjects == <<"octocat", "hubot">>

\* A return into a module-level variable both calls share.
Return_Global(c, results, v) == [i \in DOMAIN results |-> v]
\* `return`: the value goes to the caller of call c.
Return(c, results, v) == [results EXCEPT ![c] = v]

\* What one invocation returns when it runs alone and the network answers
\* `got`, in order (a NoResponse being a timeout).
Alone(o, a, token, got, at) ==
    LET read(k) == IF got[k] = NoResponse THEN NoResponse.json
                   ELSE Receive(o, k, got[k], SubSeq(got, 1, k - 1))
        failed == {k \in DOMAIN got : ~read(k).ok}
        report(exc, r) == IF exc \in Exceptions THEN Catch(o, exc, r)
                          ELSE [pending |-> TRUE]
    IN IF token_missing(token) THEN NotConfigured
       ELSE IF failed # {}
            THEN LET k == CHOOSE i \in failed : \A j \in failed : i <= j
                 IN report(read(k).exc, got[k])
       ELSE IF Analysis(o, a, got, at).ok THEN Analysis(o, a, got, at).v
       ELSE report(Analysis(o, a, got, at).exc, NoResponse)

InitPair ==
    /\ GITHUB_TOKEN \in BOOLEAN
    /\ now = 0
    /\ op \in PairAggregators
    /\ pc = [c \in Calls |-> "idle"]
    /\ args = [c \in Calls |-> [days |-> 0]]
    /\ fetched = [c \in Calls |-> <<>>]
    /\ requests = [c \in Calls |-> <<>>]
    /\ result = [c \in Calls |-> [pending |-> TRUE]]
    /\ escaped = [c \in Calls |-> FALSE]
    /\ inp = [subject |-> Subjects]
    /\ out = NotApplied

\* The end of the try block of call c on the exception exc.
HandledOf(c, exc, r) ==
    /\ pc' = [pc EXCEPT ![c] = "done"]
    /\ result' = IF exc \in Exceptions THEN Return(c, result, Catch(op, exc, r))
                 ELSE result
    /\ escaped' = [escaped EXCEPT ![c] = exc \notin Exceptions]

\* Call c starts, up to the token check.
InvokeOf(c) ==
    /\ pc[c] = "idle"
    /\ args' = [args EXCEPT ![c] = [days |-> DaysOf(c)]]
    /\ IF token_missing(GITHUB_TOKEN)
       THEN /\ result' = Return(c, result, NotConfigured)
            /\ pc' = [pc EXCEPT ![c] = "done"]
       ELSE /\ result' = result
            /\ pc' = [pc EXCEPT ![c] = "fetching"]
    /\ UNCHANGED <<GITHUB_TOKEN, now, op, fetched, requests, escaped, inp, out>>

\* The next client.get() of call c answers, and the call reads the answer.
FetchOf(c) ==
    /\ pc[c] = "fetching"
    /\ LET k == Len(requests[c]) + 1
       IN \E r \in Responses(op, k, fetched[c]) :
            /\ requests' = [requests EXCEPT ![c] = Append(@, Plan(op, fetched[c])[k])]
            /\ fetched' = [fetched EXCEPT ![c] = Append(@, r)]
            /\ IF Receive(op, k, r, fetched[c]).ok
               THEN /\ pc' = [pc EXCEPT ![c] = IF k < Len(Plan(op, fetched'[c]))
                                                THEN "fetching" ELSE "analysing"]
                    /\ UNCHANGED <<result, escaped>>
               ELSE HandledOf(c, Receive(op, k, r, fetched[c]).exc, r)
    /\ UNCHANGED <<GITHUB_TOKEN, now, op, args, inp, out>>

\* The next client.get() of call c times out.
FetchTimesOutOf(c) ==
    /\ pc[c] = "fetching"
    /\ requests' = [requests EXCEPT
                       ![c] = Append(@, Plan(op, fetched[c])[Len(requests[c]) + 1])]
    /\ fetched' = [fetched EXCEPT ![c] = Append(@, NoResponse)]
    /\ HandledOf(c, NoResponse.json.exc, NoResponse)
    /\ UNCHANGED <<GITHUB_TOKEN, now, op, args, inp, out>>

\* The analysis of call c and the return of its report.
AnalyseOf(c) ==
    /\ pc[c] = "analysing"
    /\ LET r == Analysis(op, args[c], fetched[c], now)
       IN IF r.ok
          THEN /\ pc' = [pc EXCEPT ![c] = "done"]
               /\ result' = Return(c, result, r.v)
               /\ escaped' = escaped
          ELSE HandledOf(c, r.exc, NoResponse)
    /\ UNCHANGED <<GITHUB_TOKEN, now, op, args, fetched, requests, inp, out>>

NextPair ==
    \E c \in Calls : InvokeOf(c) \/ FetchOf(c) \/ FetchTimesOutOf(c) \/ AnalyseOf(c)

SpecPair == InitPair /\ [][NextPair]_vars

\* C21: in every interleaving of two concurrent invocations of one
\* aggregator on different subjects, a call that has returned has returned
\* what it returns when it runs alone and gets the same answers, and a call
\* that has not returned has no result yet.
C21_NoInterference ==
    \A c \in Calls :
        /\ pc[c] = "done" /\ ~escaped[c] =>
              result[c] = Alone(op, args[c], GITHUB_TOKEN, fetched[c], now)
        /\ pc[c] # "done" => result[c] = [pending |-> TRUE]

\* The second call has returned the error of its second fetch while the first
\* call of the user aggregator is between its first and its second fetch.
C21_Witness ==
    /\ op = "user" /\ Subjects[1] # Subjects[2]
    /\ pc[1] = "fetching" /\ Len(fetched[1]) = 1
    /\ pc[2] = "done" /\ Len(fetched[2]) = 2
    /\ result[2] = Alone(op, args[2], GITHUB_TOKEN, fetched[2], now)
    /\ "error" \in DOMAIN result[2]

\* C26: for a valid package manifest, security_packages lists exactly the
\* known security package names among its dependencies and
\* testing_frameworks exactly the known test-framework names among its dev
\* dependencies; without dev dependencies testing_frameworks is empty.
C26_KnownPackagesFound ==
    out.applied =>
        /\ out.r.ok
        /\ out.r.v.security_packages
              = SelectSeq(security_packages, LAMBDA pkg : pkg \in inp.deps.entries)
        /\ out.r.v.testing_frameworks
              = SelectSeq(test_packages, LAMBDA pkg : pkg \in inp.dev.entries)
        /\ inp.dev.entries = {} => out.r.v.testing_frameworks = <<>>

-----------------------------------------------------------------------------
(* SpecRisk: the risk factors of every PR of the six conditions *)

\* The body of a PR: null, empty, whitespace only, or a text.
PullDescriptions == {JNull, JStr(""), JStr("   "), JStr("Adds retries")}
Mergeables == {JNull, JBool(TRUE), JBool(FALSE)}

InitRisk ==
    /\ NotInvoked
    /\ now = 0
    /\ inp \in {[pr_info |-> [description |-> d, mergeable |-> m],
                  file_analysis |-> FileAnalysis(f, 10, 10, k, l),
                  commit_analysis |-> [total_commits |-> c]] :
                    d \in PullDescriptions, m \in Mergeables, f \in {0, 20, 21},
                    k \in {3, 4}, l \in BOOLEAN, c \in {15, 16}}
    /\ out = NotApplied

IdentifyRiskFactors ==
    /\ ~out.applied
    /\ out' = Applied(_identify_risk_factors(inp.pr_info, inp.file_analysis,
                                             inp.commit_analysis))
    /\ UNCHANGED <<aggVars, now, inp>>

NextRisk == IdentifyRiskFactors

SpecRisk == InitRisk /\ [][NextRisk]_vars

\* The number of entries of the returned list that are the text.
RiskEntries(text) ==
    IF out.r.ok THEN Cardinality({i \in DOMAIN out.r.v : out.r.v[i] = text}) ELSE 0
OneIff(text, condition) == RiskEntries(text) = IF condition THEN 1 ELSE 0

\* C25: the risk-factor list holds exactly one entry for each of the six
\* conditions that holds and none for one that does not: more than 20 files;
\* more than 3 languages; a large file; a description that is null, empty or
\* whitespace only; more than 15 commits; mergeable explicitly false.
C25_RiskFactors ==
    out.applied =>
        LET fa == inp.file_analysis
            some == fa.total_files # 0
        IN /\ out.r.ok
           /\ Len(out.r.v) <= 6
           /\ OneIff("Large PR - consider breaking into smaller PRs",
                     fa.total_files > 20)
           /\ OneIff("Multiple languages modified - ensure consistent changes",
                     some /\ Cardinality(DOMAIN fa.languages) > 3)
           /\ OneIff("Large files modified - review carefully for maintainability",
                     some /\ fa.large_files # <<>>)
           /\ OneIff("No PR description - add context for reviewers",
                     inp.pr_info.description \in {JNull, JStr(""), JStr("   ")})
           /\ OneIff("Many commits - consider squashing",
                     inp.commit_analysis.total_commits > 15)
           /\ OneIff("PR has merge conflicts - resolve before merging",
                     inp.pr_info.mergeable = JBool(FALSE))

-----------------------------------------------------------------------------
(* SpecLabels: apply_issue_labels_tool called up to MaxCalls times with the *)
(* same labels on one issue that nothing else changes                       *)

\* In this specification `inp` is the issue as GitHub holds it, `args` the
\* arguments of the calls, `fetched` the current_labels the running call has
\* read, `requests` the HTTP requests issued so far and `result` the values
\* the calls have returned, in order.
MaxCalls == 2
LabelNames == {"bug", "docs"}
IssueLabelLists == {<<>>, <<"bug">>, <<"docs">>, <<"wontfix">>, <<"wontfix", "bug">>,
                    <<"bug", "docs">>, <<"docs", "wontfix", "bug">>}

Elements(q) == {q[i] : i \in DOMAIN q}

\* Posting every requested label.
new_labels_All(labels, current_labels) == labels
\* Line 103: [label for label in labels if label not in current_labels]
new_labels(labels, current_labels) ==
    SelectSeq(labels, LAMBDA label : label \notin Elements(current_labels))

\* POST /issues/{n}/labels on GitHub: the labels not yet on the issue are
\* appended to it.
AddLabels(current, added) ==
    LET add[i \in 0..Len(added)] ==
            IF i = 0 THEN current
            ELSE IF added[i] \in Elements(add[i - 1]) THEN add[i - 1]
                 ELSE Append(add[i - 1], added[i])
    IN add[Len(added)]

\* The body of GET /issues/{n}.
IssueBody(labels) ==
    JObj([number |-> JNum(7),
          labels |-> JList([i \in DOMAIN labels |-> JObj([name |-> JStr(labels[i])])])])

\* Line 100: [label["name"] for label in current_r.json().get("labels", [])]
current_labels(body) ==
    LET listed == GetD(body.o, "labels", JList(<<>>)).l
    IN [i \in DOMAIN listed |-> listed[i].o.name.s]

\* Lines 110-128: the two success reports.
LabelsApplied(added, current) ==
    [owner |-> "octo", repo |-> "repo", issue_number |-> 7,
     labels_added |-> added, existing_labels |-> current, success |-> TRUE,
     message |-> <<"Successfully applied ", Len(added), " new labels">>]
NothingToApply(current) ==
    [owner |-> "octo", repo |-> "repo", issue_number |-> 7,
     labels_added |-> <<>>, existing_labels |-> current, success |-> TRUE,
     message |-> <<"No new labels to apply - all suggested labels already exist">>]

\* Lines 130-139: the two handlers.
LabelsFailure(r) ==
    IF r = NoResponse
    THEN [error |-> <<"Exception occurred while applying labels">>,
          details |-> <<"TimeoutException">>]
    ELSE HTTPErrorReport(r)

GetIssue == <<"GET", "/repos/{owner}/{repo}/issues/{issue_number}">>
PostLabels(labels) == <<"POST", "/repos/{owner}/{repo}/issues/{issue_number}/labels", labels>>

InitLabels ==
    /\ GITHUB_TOKEN \in BOOLEAN
    /\ now = 0
    /\ op = "labels"
    /\ pc = "idle"
    /\ args \in [labels : SeqsUpTo(LabelNames, 2)]
    /\ fetched = <<>>
    /\ requests = <<>>
    /\ result = <<>>
    /\ escaped = FALSE
    /\ inp \in [labels : IssueLabelLists]
    /\ out = NotApplied

\* Lines 91-92: a call, up to the token check.
InvokeLabels ==
    /\ pc = "idle"
    /\ Len(result) < MaxCalls
    /\ IF token_missing(GITHUB_TOKEN)
       THEN /\ result' = Append(result, NotConfigured)
            /\ pc' = pc
       ELSE /\ result' = result
            /\ pc' = "reading"
    /\ fetched' = <<>>
    /\ UNCHANGED <<GITHUB_TOKEN, now, op, args, requests, escaped, inp, out>>

\* Lines 98-103 and 119-128: the issue is read; with nothing new to apply the
\* call returns.
ReadIssue ==
    /\ pc = "reading"
    /\ requests' = Append(requests, GetIssue)
    /\ fetched' = current_labels(IssueBody(inp.labels))
    /\ IF new_labels(args.labels, fetched') # <<>>
       THEN /\ pc' = "posting"
            /\ result' = result
       ELSE /\ pc' = "idle"
            /\ result' = Append(result, NothingToApply(fetched'))
    /\ UNCHANGED <<GITHUB_TOKEN, now, op, args, escaped, inp, out>>

\* Lines 98-99: the read answers with an HTTP error, or times out.
ReadIssueFails ==
    /\ pc = "reading"
    /\ requests' = Append(requests, GetIssue)
    /\ \E r \in Errors \cup {NoResponse} : result' = Append(result, LabelsFailure(r))
    /\ pc' = "idle"
    /\ UNCHANGED <<GITHUB_TOKEN, now, op, args, fetched, escaped, inp, out>>

\* Lines 105-117: the new labels are posted and GitHub adds them.
PostNewLabels ==
    /\ pc = "posting"
    /\ requests' = Append(requests, PostLabels(new_labels(args.labels, fetched)))
    /\ inp' = [labels |-> AddLabels(inp.labels, new_labels(args.labels, fetched))]
    /\ result' = Append(result, LabelsApplied(new_labels(args.labels, fetched), fetched))
    /\ pc' = "idle"
    /\ UNCHANGED <<GITHUB_TOKEN, now, op, args, fetched, escaped, out>>

\* Lines 107-108: the POST answers with an HTTP error and changes nothing,
\* or times out, GitHub having added the labels or not.
PostNewLabelsFails ==
    /\ pc = "posting"
    /\ requests' = Append(requests, PostLabels(new_labels(args.labels, fetched)))
    /\ \E r \in Errors \cup {NoResponse} :
          /\ result' = Append(result, LabelsFailure(r))
          /\ \/ inp' = inp
             \/ /\ r = NoResponse
                /\ inp' = [labels |-> AddLabels(inp.labels,
                                                new_labels(args.labels, fetched))]
    /\ pc' = "idle"
    /\ UNCHANGED <<GITHUB_TOKEN, now, op, args, fetched, escaped, out>>

NextLabels ==
    InvokeLabels \/ ReadIssue \/ ReadIssueFails \/ PostNewLabels \/ PostNewLabelsFails

SpecLabels == InitLabels /\ [][NextLabels]_vars

Succeeded(k) == k \in DOMAIN result /\ "success" \in DOMAIN result[k]
Posts == {i \in DOMAIN requests : requests[i][1] = "POST"}

\* C28: apply_issue_labels_tool reads the labels of the issue first and
\* posts only the requested labels that are not on it; with every requested
\* label on the issue it posts nothing and returns success with labels_added
\* = [].  So after a call that applied the labels, a second call with the
\* same labels adds nothing: it posts nothing, reports labels_added = [] when
\* its read succeeds, and the labels of the issue stay what the first call
\* left.
C28_OnlyNewLabelsPosted ==
    /\ \A i \in Posts :
          /\ i > 1 /\ requests[i - 1] = GetIssue
          /\ requests[i][3] # <<>>
          /\ Elements(requests[i][3]) \subseteq Elements(args.labels)
    /\ pc = "posting" =>
          /\ requests[Len(requests)] = GetIssue
          /\ Elements(new_labels(args.labels, fetched)) \cap Elements(inp.labels) = {}
    /\ pc = "idle" /\ result # <<>> /\ requests # <<>>
          /\ requests[Len(requests)] = GetIssue /\ Succeeded(Len(result)) =>
          /\ Elements(args.labels) \subseteq Elements(inp.labels)
          /\ result[Len(result)].labels_added = <<>>
    /\ Succeeded(1) =>
          /\ Elements(inp.labels)
                = Elements(result[1].existing_labels) \cup Elements(args.labels)
          /\ Cardinality(Posts) <= 1
          /\ Succeeded(2) => /\ result[2].labels_added = <<>>
                              /\ result[2].existing_labels = inp.labels

\* The first call added "bug" to an issue labelled "wontfix"; the second
\* call has read the issue and returned without a POST.
C28_Witness ==
    /\ args.labels = <<"bug">>
    /\ Succeeded(1) /\ result[1].labels_added = <<"bug">>
    /\ Succeeded(2) /\ result[2].labels_added = <<>>
    /\ requests = <<GetIssue, PostLabels(<<"bug">>), GetIssue>>
    /\ inp.labels = <<"wontfix", "bug">>

-----------------------------------------------------------------------------
(* SpecUserReport: the user report of the same fetched data under two *)
(* lookback windows                                                    *)

\* The events of the model: three types, inside and outside of the windows,
\* and an event without created_at.
ReportEvents ==
    {Dated(k, JDate(t)) : k \in {"PushEvent", "PullRequestEvent", "IssuesEvent"},
                          t \in {0, 0 - TicksPerDay, 0 - MaxDays * TicksPerDay - 1}}
    \cup {Undated("PushEvent")}

InitUserReport ==
    /\ NotInvoked
    /\ now = 0
    /\ inp \in [repos : RepoLists, events : SeqsUpTo(ReportEvents, MaxItems),
                days : 0..MaxDays, other_days : 0..MaxDays]
    /\ out = NotApplied

\* Lines 141-154, for the window `days` and again for the window other_days.
AnalyzeUserContributions ==
    /\ ~out.applied
    /\ out' = Applied([d \in {inp.days, inp.other_days} |->
                          _analyze_user_contributions(UserBody.o, inp.repos, inp.events,
                                                      <<>>, d, now, now)])
    /\ UNCHANGED <<aggVars, now, inp>>

NextUserReport == AnalyzeUserContributions

SpecUserReport == InitUserReport /\ [][NextUserReport]_vars

EventsOfType(kind) == SelectSeq(inp.events, LAMBDA e : e.o.type = JStr(kind))
EventInWindow(e, d) == e.o.created_at.at > now - d * TicksPerDay

\* C29: the collaboration section of the user report is computed over all
\* fetched events: for the same fetched data it is the same under every
\* lookback window, while total_events of the activity section counts the
\* events inside the window only.
C29_CollaborationIgnoresWindow ==
    out.applied =>
        LET first == out.r[inp.days]
            second == out.r[inp.other_days]
        IN /\ first.ok <=> second.ok
           /\ first.ok =>
                 /\ first.v.collaboration = second.v.collaboration
                 /\ first.v.collaboration.recent_pr_activity
                       = Len(EventsOfType("PullRequestEvent"))
                 /\ first.v.collaboration.recent_issue_activity
                       = Len(EventsOfType("IssuesEvent"))
                 /\ \A d \in {inp.days, inp.other_days} :
                       out.r[d].v.activity.total_events
                         = Len(SelectSeq(inp.events, LAMBDA e : EventInWindow(e, d)))

\* A pull request event older than both windows is counted in the
\* collaboration section under both, and in the activity section under
\* neither; the event of today is counted under the longer window only.
C29_Witness ==
    /\ out.applied
    /\ inp.days = 0 /\ inp.other_days = MaxDays
    /\ inp.events = <<Dated("PullRequestEvent", JDate(0 - MaxDays * TicksPerDay - 1)),
                      Dated("IssuesEvent", JDate(0))>>
    /\ out.r[0].ok /\ out.r[MaxDays].ok
    /\ out.r[0].v.collaboration.recent_pr_activity = 1
    /\ out.r[MaxDays].v.collaboration.recent_pr_activity = 1
    /\ out.r[0].v.activity.total_events = 0
    /\ out.r[MaxDays].v.activity.total_events = 1

====
